---- MODULE Spec2Model ----
(***************************************************************************)
(* Method-boundary extraction engine of the error-tracing server           *)
(* (stack-analyzer.ts): cleanLine, findMethodBoundaries, getFileContent    *)
(* and getCodeContext.                                                     *)
(*                                                                         *)
(* A line of source text is a sequence of one-character strings.  All the  *)
(* string helpers keep JavaScript's 0-based indices and the -1 "not found" *)
(* result, so that the index arithmetic of the source carries over.        *)
(***************************************************************************)
EXTENDS Integers, Sequences, FiniteSets, TLC

(***************************************************************************)
(* Character classes of the regular expressions.                           *)
(***************************************************************************)
Lower == {"a","b","c","d","e","f","g","h","i","j","k","l","m",
          "n","o","p","q","r","s","t","u","v","w","x","y","z"}

Upper == {"A","B","C","D","E","F","G","H","I","J","K","L","M",
          "N","O","P","Q","R","S","T","U","V","W","X","Y","Z"}

Digit == {"0","1","2","3","4","5","6","7","8","9"}

\* \w
WordChar == Lower \cup Upper \cup Digit \cup {"_"}

\* \s (the line terminator never occurs inside a line)
SpaceChar == {" ", "\t"}

\* [\w.]
AnnotNameChar == WordChar \cup {"."}

\* [\w<>\[\].,\s]
TypeTailChar == WordChar \cup SpaceChar \cup {"<", ">", "[", "]", ".", ","}

(***************************************************************************)
(* String primitives of JavaScript, 0-based indices.                       *)
(***************************************************************************)
charAt(s, i) == s[i + 1]

substring(s, a, b) == SubSeq(s, a + 1, b)

substringFrom(s, a) == SubSeq(s, a + 1, Len(s))

startsWithAt(s, pat, i) ==
    /\ i >= 0
    /\ i + Len(pat) <= Len(s)
    /\ \A k \in 1..Len(pat) : s[i + k] = pat[k]

startsWith(s, pat) == startsWithAt(s, pat, 0)

RECURSIVE indexOf(_, _, _)
indexOf(s, pat, from) ==
    IF from + Len(pat) > Len(s) THEN -1
    ELSE IF startsWithAt(s, pat, from) THEN from
    ELSE indexOf(s, pat, from + 1)

RECURSIVE lastIndexOf(_, _, _)
lastIndexOf(s, pat, from) ==
    IF from < 0 THEN -1
    ELSE IF startsWithAt(s, pat, from) THEN from
    ELSE lastIndexOf(s, pat, from - 1)

includes(s, pat) == indexOf(s, pat, 0) # -1

\* first index >= p that does not hold a character of class cls
RECURSIVE skipClass(_, _, _)
skipClass(s, p, cls) ==
    IF p < Len(s) /\ charAt(s, p) \in cls THEN skipClass(s, p + 1, cls) ELSE p

RECURSIVE skipClassBack(_, _, _)
skipClassBack(s, p, cls) ==
    IF p > 0 /\ charAt(s, p - 1) \in cls THEN skipClassBack(s, p - 1, cls) ELSE p

trim(s) ==
    LET a == skipClass(s, 0, SpaceChar)
    IN  IF a = Len(s) THEN << >>
        ELSE substring(s, a, skipClassBack(s, Len(s), SpaceChar))

\* /;\s*$/.test(s)
endsWithSemicolonPattern(s) ==
    LET e == skipClassBack(s, Len(s), SpaceChar)
    IN  e > 0 /\ charAt(s, e - 1) = ";"

\* \b after a word character at position p - 1
wordBoundaryAt(s, p) == p >= Len(s) \/ charAt(s, p) \notin WordChar

(***************************************************************************)
(* Literal tokens used by the source.                                      *)
(***************************************************************************)
TripleQuote  == <<"\"", "\"", "\"">>
LineComment  == <<"/", "/">>
BlockOpen    == <<"/", "*">>
BlockClose   == <<"*", "/">>
Star         == <<"*">>
Dot          == <<".">>
Equals       == <<"=">>
OpenBrace    == <<"{">>
OpenParen    == <<"(">>
CloseParen   == <<")">>

(***************************************************************************)
(* cleanLine: strips text blocks, comments and literals of one line.       *)
(* The inTextBlock object is threaded as the `active` field of the result. *)
(***************************************************************************)
\* cleaned.replace(/\/\*[^]*?\*\//g, '')
RECURSIVE removeBlockComments(_)
removeBlockComments(s) ==
    LET i == indexOf(s, BlockOpen, 0)
        j == IF i = -1 THEN -1 ELSE indexOf(s, BlockClose, i + 2)
    IN  IF j = -1 THEN s
        ELSE substring(s, 0, i) \o removeBlockComments(substringFrom(s, j + 2))

\* index of the closing quote of /q(?:[^q\\]|\\.)*q/ scanning from k, or -1
RECURSIVE literalClose(_, _, _)
literalClose(s, k, q) ==
    IF k >= Len(s) THEN -1
    ELSE IF charAt(s, k) = q THEN k
    ELSE IF charAt(s, k) = "\\"
         THEN (IF k + 1 < Len(s) THEN literalClose(s, k + 2, q) ELSE -1)
    ELSE literalClose(s, k + 1, q)

\* cleaned.replace(/q(?:[^q\\]|\\.)*q/g, 'qq')
RECURSIVE replaceLiterals(_, _, _)
replaceLiterals(s, p, q) ==
    IF p >= Len(s) THEN << >>
    ELSE IF charAt(s, p) = q /\ literalClose(s, p + 1, q) # -1
         THEN <<q, q>> \o replaceLiterals(s, literalClose(s, p + 1, q) + 1, q)
    ELSE <<charAt(s, p)>> \o replaceLiterals(s, p + 1, q)

\* a scrub that leaves the line comments in
keepLineComments(c) ==
    replaceLiterals(replaceLiterals(removeBlockComments(c), 0, "\""), 0, "'")

\* lines 55-68: line comment, one-line block comments, string and char literals
stripCommentsAndLiterals(c) ==
    LET commentIndex == indexOf(c, LineComment, 0)
        c1 == IF commentIndex # -1 THEN substring(c, 0, commentIndex) ELSE c
        c2 == removeBlockComments(c1)
        c3 == replaceLiterals(c2, 0, "\"")
    IN  replaceLiterals(c3, 0, "'")

\* lines 42-53: a text block opening on this line
stripTextBlockStart(c, active) ==
    LET textBlockStart == indexOf(c, TripleQuote, 0)
        textBlockEnd   == IF textBlockStart = -1 THEN -1
                          ELSE indexOf(c, TripleQuote, textBlockStart + 3)
    IN  IF textBlockStart = -1 THEN [cleaned |-> c, active |-> active]
        ELSE IF textBlockEnd # -1
             THEN [cleaned |-> substring(c, 0, textBlockStart)
                                 \o substringFrom(c, textBlockEnd + 3),
                   active  |-> active]
        ELSE [cleaned |-> substring(c, 0, textBlockStart), active |-> TRUE]

cleanLine(line, active) ==
    LET endIndex == indexOf(line, TripleQuote, 0)
    IN  IF active /\ endIndex = -1
        THEN [cleaned |-> << >>, active |-> TRUE]
        ELSE LET c0 == IF active THEN substringFrom(line, endIndex + 3) ELSE line
                 tb == stripTextBlockStart(c0, FALSE)
             IN  [cleaned |-> stripCommentsAndLiterals(tb.cleaned),
                  active  |-> tb.active]

(***************************************************************************)
(* The three regular expressions of findMethodBoundaries, as matchers.     *)
(* A greedy quantifier that may give characters back is written as a       *)
(* quantification over the positions where it may stop.                    *)
(***************************************************************************)
Modifiers ==
    { <<"p","u","b","l","i","c">>, <<"p","r","i","v","a","t","e">>,
      <<"p","r","o","t","e","c","t","e","d">>, <<"s","t","a","t","i","c">>,
      <<"f","i","n","a","l">>,
      <<"s","y","n","c","h","r","o","n","i","z","e","d">>,
      <<"n","a","t","i","v","e">>, <<"a","b","s","t","r","a","c","t">>,
      <<"d","e","f","a","u","l","t">>, <<"s","t","r","i","c","t","f","p">> }

\* the negative lookahead of packageMethodPattern
ControlWords ==
    { <<"r","e","t","u","r","n">>, <<"t","h","r","o","w">>, <<"n","e","w">>,
      <<"c","a","s","e">>, <<"e","l","s","e">>, <<"i","f">>,
      <<"w","h","i","l","e">>, <<"f","o","r">>, <<"s","w","i","t","c","h">> }

PrimitiveTypes ==
    { <<"v","o","i","d">>, <<"b","o","o","l","e","a","n">>, <<"b","y","t","e">>,
      <<"c","h","a","r">>, <<"s","h","o","r","t">>, <<"i","n","t">>,
      <<"l","o","n","g">>, <<"f","l","o","a","t">>, <<"d","o","u","b","l","e">> }

\* (w1|w2|...)\b at position p
keywordAt(s, p, words) ==
    \E w \in words : startsWithAt(s, w, p) /\ wordBoundaryAt(s, p + Len(w))

\* positions where @[\w.]+(\([^)]*\))? may end when it starts at p
annotationEnds(s, p) ==
    IF ~(p < Len(s) /\ charAt(s, p) = "@") THEN {}
    ELSE LET names == (p + 2)..skipClass(s, p + 1, AnnotNameChar)
             close(q) == indexOf(s, CloseParen, q + 1)
         IN  names \cup
             { close(q) + 1 : q \in { n \in names :
                    /\ n < Len(s)
                    /\ charAt(s, n) = "("
                    /\ close(n) # -1 } }

\* /^\s*@[\w.]+(\([^)]*\))?\s*$/.test(line)
annotationPattern(line) ==
    \E q \in annotationEnds(line, skipClass(line, 0, SpaceChar)) :
        skipClass(line, q, SpaceChar) = Len(line)

\* \s*(@[\w.]+(\([^)]*\))?\s*)*(public|...|strictfp)\b from position p
RECURSIVE modifierReachable(_, _)
modifierReachable(s, p) ==
    \/ keywordAt(s, p, Modifiers)
    \/ p < Len(s) /\ charAt(s, p) \in SpaceChar /\ modifierReachable(s, p + 1)
    \/ \E q \in annotationEnds(s, p) : modifierReachable(s, q)

\* methodStartPattern.test(line); getCodeContext's methodSignaturePattern is
\* the same expression
methodStartPattern(line) == modifierReachable(line, 0)

\* \s+\w+\s*\( at position q
nameAndParenAt(s, q) ==
    LET a == skipClass(s, q, SpaceChar)
        b == skipClass(s, a, WordChar)
        c == skipClass(s, b, SpaceChar)
    IN  a > q /\ b > a /\ c < Len(s) /\ charAt(s, c) = "("

\* (void|...|double|[A-Z]\w*[\w<>\[\].,\s]*)\s+\w+\s*\( at position p
returnTypeAt(s, p) ==
    \/ \E w \in PrimitiveTypes :
          startsWithAt(s, w, p) /\ nameAndParenAt(s, p + Len(w))
    \/ /\ p < Len(s)
       /\ charAt(s, p) \in Upper
       /\ \E q \in (p + 1)..skipClass(s, p + 1, TypeTailChar) :
             nameAndParenAt(s, q)

\* positions where (<[^>]+>\s*)? may end when it starts at p
genericEnds(s, p) ==
    LET gt == indexOf(s, <<">">>, p + 1)
    IN  IF p < Len(s) /\ charAt(s, p) = "<" /\ gt >= p + 2
        THEN {p} \cup ((gt + 1)..skipClass(s, gt + 1, SpaceChar))
        ELSE {p}

\* packageMethodPattern.test(line)
packageMethodPattern(line) ==
    \E p \in 0..skipClass(line, 0, SpaceChar) :
        /\ ~keywordAt(line, p, ControlWords)
        /\ \E g \in genericEnds(line, p) : returnTypeAt(line, g)

(***************************************************************************)
(* findMethodBoundaries(lines, targetLineIndex, startLineNumber).          *)
(* lines is a sequence of lines; line index i of the source is lines[i+1]. *)
(***************************************************************************)
lineAt(lines, i) == lines[i + 1]

\* the lookahead of the forward signature scan (line 159)
SignatureLookahead == 30

\* the radius of the fallback window (line 318)
reasonableContext == 50

\* lines 113-132
hasModifier(line) == methodStartPattern(line)

\* a guard that takes every line the pattern matches
unguardedPackageCandidate(line) ==
    ~hasModifier(line) /\ packageMethodPattern(line)

safePackageCandidate(line) ==
    LET parenIndex == indexOf(line, OpenParen, 0)
        dotBefore  == IF parenIndex # -1 THEN lastIndexOf(line, Dot, parenIndex)
                      ELSE -1
        hasAssignment == includes(line, Equals)
    IN  /\ ~hasModifier(line)
        /\ packageMethodPattern(line)
        /\ parenIndex # -1 /\ dotBefore = -1 /\ ~hasAssignment

isPackageMethod(line) ==
    LET trimmed == trim(line)
    IN  /\ ~hasModifier(line)
        /\ safePackageCandidate(line)
        /\ ~startsWith(trimmed, <<"i","f">>)
        /\ ~startsWith(trimmed, <<"w","h","i","l","e">>)
        /\ ~startsWith(trimmed, <<"f","o","r">>)
        /\ ~startsWith(trimmed, <<"s","w","i","t","c","h">>)
        /\ ~startsWith(trimmed, <<"r","e","t","u","r","n">>)
        /\ ~startsWith(trimmed, <<"t","h","r","o","w">>)
        /\ ~startsWith(trimmed, <<"e","l","s","e">>)
        /\ ~startsWith(trimmed, <<"c","a","s","e"," ">>)

\* lines 140-153: does line j end a signature
looksLikeDeclarationWithSemicolon(rawSig) ==
    LET parenIndex == indexOf(rawSig, OpenParen, 0)
        hasClosingParen == parenIndex # -1
                           /\ indexOf(rawSig, CloseParen, parenIndex) # -1
        dotBefore == IF parenIndex # -1 THEN lastIndexOf(rawSig, Dot, parenIndex)
                     ELSE -1
        hasAssignment == includes(rawSig, Equals)
    IN  /\ endsWithSemicolonPattern(trim(rawSig))
        /\ hasClosingParen /\ dotBefore = -1 /\ ~hasAssignment

endsSignature(rawSig) ==
    includes(trim(rawSig), OpenBrace) \/ looksLikeDeclarationWithSemicolon(rawSig)

\* lines 138-160: the forward scan from signature start i; j is its cursor
RECURSIVE scanSignatureEnd(_, _, _)
scanSignatureEnd(lines, i, j) ==
    IF j >= Len(lines) THEN -1
    ELSE IF endsSignature(lineAt(lines, j)) THEN j
    ELSE IF j - i > SignatureLookahead THEN -1
    ELSE scanSignatureEnd(lines, i, j + 1)

\* line 108: while (i >= 0 && !lines[i].includes('/*')) i--
RECURSIVE skipToCommentOpener(_, _)
skipToCommentOpener(lines, i) ==
    IF i >= 0 /\ ~includes(lineAt(lines, i), BlockOpen)
    THEN skipToCommentOpener(lines, i - 1)
    ELSE i

NotLocated == [signatureStartIndex |-> -1, signatureEndIndex |-> -1]

\* lines 98-164: the backward scan, cursor i
RECURSIVE locateSignature(_, _)
locateSignature(lines, i) ==
    IF i < 0 THEN NotLocated
    ELSE LET line    == lineAt(lines, i)
             trimmed == trim(line)
         IN  IF trimmed = << >> THEN locateSignature(lines, i - 1)
             ELSE IF startsWith(trimmed, LineComment) \/ startsWith(trimmed, Star)
                  THEN locateSignature(lines, i - 1)
             ELSE IF includes(line, BlockClose)
                  THEN locateSignature(lines, skipToCommentOpener(lines, i) - 1)
             ELSE IF hasModifier(line) \/ isPackageMethod(line)
                  THEN LET j == scanSignatureEnd(lines, i, i)
                       IN  IF j # -1
                           THEN [signatureStartIndex |-> i, signatureEndIndex |-> j]
                           ELSE locateSignature(lines, i - 1)
             ELSE locateSignature(lines, i - 1)

\* a merge that never extends the start over an annotation line
keepSignatureStart(lines, methodStartIndex, i) == methodStartIndex

\* lines 169-183: merge the annotation lines above the signature, cursor i
RECURSIVE mergeAnnotations(_, _, _)
mergeAnnotations(lines, methodStartIndex, i) ==
    IF i < 0 THEN methodStartIndex
    ELSE LET line == lineAt(lines, i)
         IN  IF trim(line) = << >> THEN methodStartIndex
             ELSE IF startsWith(trim(line), LineComment) THEN methodStartIndex
             ELSE IF annotationPattern(line)
                  THEN mergeAnnotations(lines, i, i - 1)
             ELSE methodStartIndex

\* lines 210-217: the braces of one cleaned line, character k onwards
RECURSIVE countBraces(_, _, _)
countBraces(cleaned, k, st) ==
    IF k > Len(cleaned) THEN st
    ELSE countBraces(cleaned, k + 1,
            IF cleaned[k] = "{"
            THEN [braceLevel |-> st.braceLevel + 1, seenOpeningBrace |-> TRUE]
            ELSE IF cleaned[k] = "}"
            THEN [braceLevel |-> st.braceLevel - 1,
                  seenOpeningBrace |-> st.seenOpeningBrace]
            ELSE st)

\* a body scan that never goes past the signature end line
endAtSignature(lines, signatureEndIndex, i, st, active) == signatureEndIndex

\* lines 204-232: the brace-matching loop from line i in state st, with the
\* fall-backs after it
RECURSIVE scanBody(_, _, _, _, _)
scanBody(lines, signatureEndIndex, i, st, active) ==
    IF i >= Len(lines)
    THEN (IF ~st.seenOpeningBrace THEN signatureEndIndex
          ELSE IF st.braceLevel # 0 THEN Len(lines) - 1
          ELSE signatureEndIndex)
    ELSE LET c  == cleanLine(lineAt(lines, i), active)
             s2 == countBraces(c.cleaned, 1, st)
         IN  IF s2.seenOpeningBrace /\ s2.braceLevel = 0 THEN i
             ELSE scanBody(lines, signatureEndIndex, i + 1, s2, c.active)

\* lines 186-237
methodEndIndexOf(lines, signatureEndIndex) ==
    LET signatureLine == lineAt(lines, signatureEndIndex)
    IN  IF endsWithSemicolonPattern(signatureLine)
           /\ ~includes(signatureLine, OpenBrace)
        THEN signatureEndIndex
        ELSE scanBody(lines, signatureEndIndex, signatureEndIndex,
                      [braceLevel |-> 0, seenOpeningBrace |-> FALSE], FALSE)

Null == [found |-> FALSE]

findMethodBoundaries(lines, targetLineIndex, startLineNumber) ==
    LET sig == locateSignature(lines, targetLineIndex)
    IN  IF sig.signatureStartIndex = -1 \/ sig.signatureEndIndex = -1 THEN Null
        ELSE [found       |-> TRUE,
              methodStart |-> startLineNumber
                  + mergeAnnotations(lines, sig.signatureStartIndex,
                                     sig.signatureStartIndex - 1),
              methodEnd   |-> startLineNumber
                  + methodEndIndexOf(lines, sig.signatureEndIndex)]

(***************************************************************************)
(* getFileContent and getCodeContext.                                      *)
(***************************************************************************)
\* response.data.split('\n'): the lines of text from index `from` on
RECURSIVE splitFrom(_, _)
splitFrom(text, from) ==
    LET nl == indexOf(text, <<"\n">>, from)
    IN  IF nl = -1 THEN << substringFrom(text, from) >>
        ELSE << substring(text, from, nl) >> \o splitFrom(text, nl + 1)

split(text) == splitFrom(text, 0)

\* lines.join('\n')
RECURSIVE join(_)
join(lines) ==
    IF Len(lines) = 0 THEN << >>
    ELSE IF Len(lines) = 1 THEN lines[1]
    ELSE lines[1] \o <<"\n">> \o join(Tail(lines))

\* Array.prototype.slice(start, end): negative indices count from the end
sliceIndex(n, k) == IF k < 0 THEN (IF n + k < 0 THEN 0 ELSE n + k)
                    ELSE IF k > n THEN n ELSE k

slice(a, start, end) ==
    SubSeq(a, sliceIndex(Len(a), start) + 1, sliceIndex(Len(a), end))

Max(a, b) == IF a >= b THEN a ELSE b

Min(a, b) == IF a <= b THEN a ELSE b

\* lines 298-304: first line of the range that carries a modifier, or -1
RECURSIVE findSignatureIndex(_, _, _)
findSignatureIndex(lines, i, methodEndIndex) ==
    IF i > methodEndIndex THEN -1
    ELSE IF methodStartPattern(lineAt(lines, i)) THEN i
    ELSE findSignatureIndex(lines, i + 1, methodEndIndex)

\* lines 290-315
methodContext(lines, methodBoundaries) ==
    LET methodStartIndex == methodBoundaries.methodStart - 1
        methodEndIndex   == methodBoundaries.methodEnd - 1
        signatureIndex   == findSignatureIndex(lines, methodStartIndex,
                                               methodEndIndex)
        startIndex == IF signatureIndex # -1 THEN signatureIndex
                      ELSE methodStartIndex
        endIndex   == methodEndIndex
    IN  [code      |-> join(slice(lines, startIndex, endIndex + 1)),
         startLine |-> startIndex + 1,
         endLine   |-> endIndex + 1]

\* lines 316-330
\* a fallback that does not cut the window at the bounds of the file
unclampedContext(lines, t) ==
    [code      |-> join(slice(lines, t - 1 - reasonableContext,
                              t + reasonableContext)),
     startLine |-> t - reasonableContext,
     endLine   |-> t + reasonableContext]

\* a fallback that returns the whole file
wholeFileContext(lines, t) ==
    [code |-> join(lines), startLine |-> 1, endLine |-> Len(lines)]

fallbackContext(lines, t) ==
    LET fallbackStart == Max(0, t - 1 - reasonableContext)
        fallbackEnd   == Min(Len(lines) - 1, t - 1 + reasonableContext)
    IN  [code      |-> join(slice(lines, fallbackStart, fallbackEnd + 1)),
         startLine |-> fallbackStart + 1,
         endLine   |-> fallbackEnd + 1]

\* lines 334-338: the text stands for `[... status - message]`
placeholderCode == <<"[", "!", "]">>

placeholderContext(t) ==
    [code |-> placeholderCode, startLine |-> t, endLine |-> t]

(***************************************************************************)
(* The files of the repository the calls are made against: every           *)
(* concatenation of at most MaxSnippets snippets of Java source, plus the  *)
(* ten-line file of the specification's scenario.  The text of each line   *)
(* is given in the comment above it.                                       *)
(***************************************************************************)
MaxSnippets == 2

\* (empty line)
L_blank ==
    << >>

\* @Override
L_override ==
    <<"@","O","v","e","r","r","i","d","e">>

\* private int x;
L_field ==
    <<"p","r","i","v","a","t","e"," ","i","n","t"," ","x",";">>

\* import a.B;
L_import ==
    <<"i","m","p","o","r","t"," ","a",".","B",";">>

\* class A {
L_classOpen ==
    <<"c","l","a","s","s"," ","A"," ","{">>

\* void check() {
L_check ==
    <<"v","o","i","d"," ","c","h","e","c","k","(",")"," ","{">>

\*   if (x) {
L_ifOpen ==
    <<" "," ","i","f"," ","(","x",")"," ","{">>

\*     return;
L_return ==
    <<" "," "," "," ","r","e","t","u","r","n",";">>

\*   }
L_closeIn ==
    <<" "," ","}">>

\* }
L_close ==
    <<"}">>

\* public void run() {
L_run ==
    <<"p","u","b","l","i","c"," ","v","o","i","d"," ","r","u","n","(",")"," ","{">>

\*   go();
L_go ==
    <<" "," ","g","o","(",")",";">>

\* public void run(
L_runOpen ==
    <<"p","u","b","l","i","c"," ","v","o","i","d"," ","r","u","n","(">>

\*     final int a,
L_paramFinal ==
    <<" "," "," "," ","f","i","n","a","l"," ","i","n","t"," ","a",",">>

\*     int b) {
L_paramLast ==
    <<" "," "," "," ","i","n","t"," ","b",")"," ","{">>

\* abstract void f();
L_abstract ==
    <<"a","b","s","t","r","a","c","t"," ","v","o","i","d"," ","f","(",")",";">>

\* void g();
L_decl ==
    <<"v","o","i","d"," ","g","(",")",";">>

\* public abstract a.B h();
L_declDotted ==
    <<"p","u","b","l","i","c"," ","a","b","s","t","r","a","c","t"," ","a",".","B"," ","h","(",")",";">>

\*   // closing brace: }
L_lineComment ==
    <<" "," ","/","/"," ","c","l","o","s","i","n","g"," ","b","r","a","c","e",":"," ","}">>

\*   /*
L_commentOpen ==
    <<" "," ","/","*">>

\*    * a }
L_commentBody ==
    <<" "," "," ","*"," ","a"," ","}">>

\*    */
L_commentClose ==
    <<" "," "," ","*","/">>

\*   s("{");
L_string ==
    <<" "," ","s","(","\"","{","\"",")",";">>

\*   c('{');
L_char ==
    <<" "," ","c","(","'","{","'",")",";">>

\*   synchronized (this) {
L_sync ==
    <<" "," ","s","y","n","c","h","r","o","n","i","z","e","d"," ","(","t","h","i","s",")"," ","{">>

\*   final int n = 1;
L_finalLocal ==
    <<" "," ","f","i","n","a","l"," ","i","n","t"," ","n"," ","="," ","1",";">>

\*   t("""
L_textOpen ==
    <<" "," ","t","(","\"","\"","\"">>

\*     {
L_textBody ==
    <<" "," "," "," ","{">>

\*     """);
L_textClose ==
    <<" "," "," "," ","\"","\"","\"",")",";">>


\*     int a,
L_param ==
    <<" "," "," "," ","i","n","t"," ","a",",">>

\*   end of the note */
L_commentTail ==
    <<" "," ","e","n","d"," ","o","f"," ","t","h","e"," ","n","o","t","e"," ","*","/">>

\* public void f(/* id */ int a) {
L_inlineComment ==
    <<"p","u","b","l","i","c"," ","v","o","i","d"," ","f","(","/","*"," ","i","d"," ","*","/"," ","i","n","t"," ","a",")"," ","{">>

\* @SuppressWarnings("unchecked")
L_annotArgs ==
    <<"@","S","u","p","p","r","e","s","s","W","a","r","n","i","n","g","s","(","\"","u","n","c","h","e","c","k","e","d","\"",")">>

\* @Retry(on = @On(1))
L_annotNested ==
    <<"@","R","e","t","r","y","(","o","n"," ","="," ","@","O","n","(","1",")",")">>

\*   } else {
L_else ==
    <<" "," ","}"," ","e","l","s","e"," ","{">>

CheckMethod == <<L_check, L_ifOpen, L_return, L_closeIn, L_close>>

RunMethod == <<L_run, L_go, L_close>>

MultiLineMethod == <<L_runOpen, L_paramFinal, L_paramLast, L_go, L_close>>

CommentedMethod ==
    <<L_check, L_commentOpen, L_commentBody, L_commentClose, L_go, L_close>>

SyncMethod == <<L_check, L_sync, L_go, L_closeIn, L_close>>

Snippets ==
    { <<L_blank>>, <<L_override>>, <<L_field>>, <<L_import>>, <<L_classOpen>>,
      <<L_check>>, <<L_go>>, <<L_close>>, <<L_abstract>>, <<L_decl>>,
      <<L_declDotted>>, <<L_lineComment>>, <<L_string>>, <<L_char>>,
      <<L_finalLocal>>,
      CheckMethod, RunMethod, MultiLineMethod, CommentedMethod, SyncMethod,
      <<L_commentOpen, L_commentBody, L_commentClose>>,
      <<L_sync, L_go, L_closeIn>>,
      <<L_textOpen, L_textBody, L_textClose>> }

RECURSIVE FilesOf(_)
FilesOf(n) ==
    IF n = 0 THEN { << >> }
    ELSE LET shorter == FilesOf(n - 1)
         IN  shorter \cup { f \o sn : f \in shorter, sn \in Snippets }

ScenarioFile ==
    <<L_import, L_blank>> \o CheckMethod \o <<L_blank, L_go, L_blank>>

\* a local declaration and a call with a brace in a string, in a method
UnopenedFile == <<L_check, L_finalLocal, L_string, L_close>>

\* a line comment with a brace at depth 2 of a balanced method
LineCommentFile ==
    <<L_check, L_ifOpen, L_lineComment, L_closeIn, L_go, L_close, L_blank>>

\* a signature with a block comment inside its parameter list
InlineCommentFile == <<L_inlineComment, L_go, L_close>>

\* a signature whose opening brace stands SignatureLookahead + 1 lines below
\* its first line
LookaheadFile ==
    <<L_runOpen>> \o [k \in 1..SignatureLookahead |-> L_param]
                  \o <<L_paramLast, L_go, L_close>>

\* a file that breaks off inside the signature of its second method
UnendedFile == <<L_check, L_go, L_runOpen, L_param>>

\* two annotated methods: a blank line, then a line comment, stands between
\* the first annotation and the ones directly above the signature
SeparatedAnnotationFile ==
    <<L_override, L_blank, L_annotArgs, L_check, L_go, L_close,
      L_override, L_lineComment, L_override, L_run, L_go, L_close>>

\* a method below two annotations, the lower one with an annotation among its
\* arguments
NestedAnnotationFile == <<L_override, L_annotNested, L_check, L_go, L_close>>

\* a method with a local declaration in the first branch of an if and a
\* nested if in its else branch
ElseFile ==
    <<L_check, L_ifOpen, L_finalLocal, L_else, L_ifOpen, L_return, L_closeIn,
      L_closeIn, L_close>>

\* a file without any declaration, long enough for the fallback window to
\* end before the last line or start after the first
LongFile == [k \in 1..(reasonableContext + 3) |-> L_go]

ProbeFiles ==
    { ScenarioFile, UnopenedFile, LineCommentFile, InlineCommentFile,
      LookaheadFile, UnendedFile, SeparatedAnnotationFile,
      NestedAnnotationFile, ElseFile, LongFile }

Files == (FilesOf(MaxSnippets) \ { << >> }) \cup ProbeFiles

\* the raw text the repository serves for a file
RemoteTexts == { join(f) : f \in Files }

\* line numbers a caller passes: every line of the file, one past its end,
\* 0, and one far enough below 1 to push the fallback window's end below 0
TargetLines(text) ==
    (0..(Len(split(text)) + 1)) \cup { 0 - reasonableContext - 1 }

(***************************************************************************)
(* One call of getCodeContext.  pc is the place the call has reached:      *)
(*   idle       not called yet                                             *)
(*   fetching   suspended at `await getFileContent` (line 281)             *)
(*   resolved   the file has arrived, the rest of the try block is to run  *)
(*   returnedMethod, returnedFallback, returnedPlaceholder                 *)
(*              returned at line 311, 325, 334                             *)
(*   thrown     the promise was rejected (line 340)                        *)
(***************************************************************************)
VARIABLES remote, pc, targetLine, allLines, methodBoundaries, result

vars == <<remote, pc, targetLine, allLines, methodBoundaries, result>>

NoResult == [code |-> << >>, startLine |-> 0, endLine |-> 0]

Init ==
    /\ remote \in RemoteTexts
    /\ pc = "idle"
    /\ targetLine = 0
    /\ allLines = << >>
    /\ methodBoundaries = Null
    /\ result = NoResult

\* a catch block that takes every error for a failed request
everyErrorIsAxios(error) == TRUE

isAxiosError(error) == error = "AxiosError"

\* lines 331-341: what the catch block makes of an error raised in the try
catchError(error, t) ==
    IF isAxiosError(error)
    THEN [pc |-> "returnedPlaceholder", result |-> placeholderContext(t)]
    ELSE [pc |-> "thrown", result |-> NoResult]

Call(t) ==
    /\ pc = "idle"
    /\ pc' = "fetching"
    /\ targetLine' = t
    /\ UNCHANGED <<remote, allLines, methodBoundaries, result>>

\* axios.get rejects: the catch block turns it into the placeholder
FetchFails ==
    /\ pc = "fetching"
    /\ pc' = catchError("AxiosError", targetLine).pc
    /\ result' = catchError("AxiosError", targetLine).result
    /\ UNCHANGED <<remote, targetLine, allLines, methodBoundaries>>

\* getFileContent resolves with the lines of the file
FetchResolves ==
    /\ pc = "fetching"
    /\ pc' = "resolved"
    /\ allLines' = split(remote)
    /\ UNCHANGED <<remote, targetLine, methodBoundaries, result>>

\* a check that also turns the last line of the file away
reachesFileLength(t, lines) == t >= Len(lines)

\* line 283: the target line lies beyond the file
exceedsFileLength(t, lines) == t > Len(lines)

RejectTargetLine ==
    /\ pc = "resolved"
    /\ exceedsFileLength(targetLine, allLines)
    /\ pc' = catchError("Error", targetLine).pc
    /\ result' = catchError("Error", targetLine).result
    /\ UNCHANGED <<remote, targetLine, allLines, methodBoundaries>>

\* lines 288-330: the method found around the target line, or the fallback
\* window when findMethodBoundaries returns null
ExtractContext ==
    /\ pc = "resolved"
    /\ ~exceedsFileLength(targetLine, allLines)
    /\ methodBoundaries' = findMethodBoundaries(allLines, targetLine - 1, 1)
    /\ IF methodBoundaries'.found
       THEN /\ result' = methodContext(allLines, methodBoundaries')
            /\ pc' = "returnedMethod"
       ELSE /\ result' = fallbackContext(allLines, targetLine)
            /\ pc' = "returnedFallback"
    /\ UNCHANGED <<remote, targetLine, allLines>>

Next ==
    \/ pc = "idle" /\ \E t \in TargetLines(remote) : Call(t)
    \/ FetchFails
    \/ FetchResolves
    \/ RejectTargetLine
    \/ ExtractContext

Spec == Init /\ [][Next]_vars

(***************************************************************************)
(* What the lines of the catalogue are, as Java: the reference the         *)
(* extraction is compared with.  None of it is read by the operators       *)
(* above.                                                                  *)
(***************************************************************************)
\* one-line signatures that open the method body
MethodOpeners == { L_check, L_run, L_inlineComment }

\* first, middle and last lines of a signature written over several lines
SignatureFirstLines == { L_runOpen }

SignatureContinuations == { L_paramFinal, L_param }

SignatureLastLines == { L_paramLast }

\* declarations without a body
BodylessDeclarations == { L_abstract, L_decl, L_declDotted }

AnnotationLines == { L_override, L_annotArgs }

\* L_lineComment, L_commentBody, L_string and L_char without the brace that
\* stands in their comment or literal
\*   // closing brace:
P_lineComment ==
    <<" "," ","/","/"," ","c","l","o","s","i","n","g"," ","b","r","a","c","e",":">>

\*    * a
P_commentBody ==
    <<" "," "," ","*"," ","a">>

\*   s("");
P_string ==
    <<" "," ","s","(","\"","\"",")",";">>

\*   c(' ');
P_char ==
    <<" "," ","c","(","'"," ","'",")",";">>

plainLine(line) ==
    IF line = L_lineComment THEN P_lineComment
    ELSE IF line = L_commentBody THEN P_commentBody
    ELSE IF line = L_string THEN P_string
    ELSE IF line = L_char THEN P_char
    ELSE line

\* lines that may stand inside a method body
BodyLines ==
    { L_blank, L_go, L_ifOpen, L_return, L_closeIn, L_close, L_lineComment,
      L_commentOpen, L_commentBody, L_commentClose, L_string, L_char, L_sync,
      L_finalLocal, L_textOpen, L_textBody, L_textClose,
      P_lineComment, P_commentBody, P_string, P_char }

\* braces of the line that are Java structure (not in a comment or literal)
structuralDepth(line) ==
    IF line \in MethodOpeners \cup SignatureLastLines
                \cup { L_ifOpen, L_sync, L_classOpen } THEN 1
    ELSE IF line \in { L_closeIn, L_close } THEN -1
    ELSE 0

\* the line (1-based) that closes the body entered at depth `depth` before
\* line i, or 0 when the body is not well formed
RECURSIVE bodyClose(_, _, _)
bodyClose(lines, i, depth) ==
    IF i > Len(lines) \/ lines[i] \notin BodyLines THEN 0
    ELSE IF depth + structuralDepth(lines[i]) = 0 THEN i
    ELSE bodyClose(lines, i + 1, depth + structuralDepth(lines[i]))

\* the line holding the `{` of the signature that starts at line s, or 0
RECURSIVE signatureClose(_, _)
signatureClose(lines, i) ==
    IF i > Len(lines) THEN 0
    ELSE IF lines[i] \in SignatureLastLines THEN i
    ELSE IF lines[i] \in SignatureContinuations THEN signatureClose(lines, i + 1)
    ELSE 0

IsMethodStart(line) ==
    line \in MethodOpeners \cup SignatureFirstLines \cup BodylessDeclarations

\* the last line of the well-formed method whose signature starts at line s,
\* or 0 when line s starts no well-formed method
trueMethodEnd(lines, s) ==
    IF lines[s] \in BodylessDeclarations THEN s
    ELSE IF lines[s] \in MethodOpeners THEN bodyClose(lines, s + 1, 1)
    ELSE IF lines[s] \in SignatureFirstLines
         THEN (IF signatureClose(lines, s + 1) = 0 THEN 0
               ELSE bodyClose(lines, signatureClose(lines, s + 1) + 1, 1))
    ELSE 0

\* the topmost line of the run of annotation lines directly above line s
RECURSIVE annotationTop(_, _)
annotationTop(lines, s) ==
    IF s > 1 /\ lines[s - 1] \in AnnotationLines
    THEN annotationTop(lines, s - 1) ELSE s

\* the well-formed methods [s, e] of the file that contain line t
methodsAround(lines, t) ==
    { s \in 1..Len(lines) : s <= t /\ t <= trueMethodEnd(lines, s) }

Returned == pc \in { "returnedMethod", "returnedFallback" }

\* the range the try block of getCodeContext yields for a file of t or more
\* lines
rangeOf(lines, t) ==
    LET mb == findMethodBoundaries(lines, t - 1, 1)
    IN  IF mb.found THEN methodContext(lines, mb) ELSE fallbackContext(lines, t)

\* the last line of the method that starts at line s, the end of the file
\* when its braces never close
methodExtent(lines, s) ==
    IF trueMethodEnd(lines, s) = 0 THEN Len(lines) ELSE trueMethodEnd(lines, s)

\* line t lies in no method of the file, annotation lines included
OutsideEveryMethod(lines, t) ==
    \A s \in 1..Len(lines) :
        IsMethodStart(lines[s]) =>
            ~(annotationTop(lines, s) <= t /\ t <= methodExtent(lines, s))

(***************************************************************************)
(* The claims.                                                             *)
(***************************************************************************)

\* the method that starts at line s has a body, and no line of it holds a
\* brace in a comment or a literal
plainBodied(lines, s) ==
    /\ lines[s] \notin BodylessDeclarations
    /\ \A i \in s..trueMethodEnd(lines, s) : plainLine(lines[i]) = lines[i]

\* C1: for every well-formed method with a body occupying lines [s, e] and
\* every target line t with s <= t <= e, getCodeContext returns startLine = s
\* (or the first line of the annotation run directly above s) and endLine = e.
C1_EnclosingMethodReturned ==
    Returned =>
        \A s \in methodsAround(allLines, targetLine) :
            plainBodied(allLines, s) =>
                /\ result.startLine \in { s, annotationTop(allLines, s) }
                /\ result.endLine = trueMethodEnd(allLines, s)

\* C2: whenever findMethodBoundaries returns a boundary for target line t,
\* the boundary contains the target: methodStart <= t <= methodEnd.
C2_BoundaryContainsTarget ==
    pc = "returnedMethod" =>
        /\ methodBoundaries.methodStart <= targetLine
        /\ targetLine <= methodBoundaries.methodEnd

\* C3: for every call that returns a CodeContext built from the file, code is
\* exactly the original lines startLine..endLine of the file joined with
\* newlines.
C3_CodeIsOriginalLines ==
    Returned =>
        result.code = join(SubSeq(allLines, result.startLine, result.endLine))

\* C4: putting a brace inside a string literal, a character literal, a line
\* comment or a block comment (also one spanning several lines) on a line of
\* a method whose boundaries are resolved correctly leaves the result of
\* getCodeContext unchanged.
C4_BracesInCommentsIgnored ==
    Returned =>
        \A i \in 1..Len(allLines) :
            LET base   == [allLines EXCEPT ![i] = plainLine(allLines[i])]
                before == rangeOf(base, targetLine)
            IN  ( /\ base # allLines
                  /\ \E s \in methodsAround(base, targetLine) :
                        /\ s <= i /\ i <= trueMethodEnd(base, s)
                        /\ before.startLine \in { s, annotationTop(base, s) }
                        /\ before.endLine = trueMethodEnd(base, s) )
                => /\ result.startLine = before.startLine
                   /\ result.endLine = before.endLine

\* the signature the backward scan settles on starts at line s (1-based)
locatedAt(s) ==
    locateSignature(allLines, targetLine - 1).signatureStartIndex = s - 1

\* the target is in a method whose signature, directly below a run of
\* annotation lines, is the one the backward scan settles on
annotatedMethods ==
    { s \in methodsAround(allLines, targetLine) :
        annotationTop(allLines, s) < s /\ locatedAt(s) }

C6_MultiLineSignatureStart ==
    Returned =>
        \A s \in methodsAround(allLines, targetLine) :
            (allLines[s] \in SignatureFirstLines /\ plainBodied(allLines, s))
                => result.startLine \in { s, annotationTop(allLines, s) }

\* C7: when the target line is a bodyless declaration (with no annotation
\* above it), getCodeContext returns startLine = endLine = that line.
C7_BodylessDeclarationIsItsOwnRange ==
    ( /\ Returned
      /\ targetLine \in 1..Len(allLines)
      /\ allLines[targetLine] \in BodylessDeclarations
      /\ annotationTop(allLines, targetLine) = targetLine )
    => /\ result.startLine = targetLine
       /\ result.endLine = targetLine

\* C8: whenever the target line lies outside every method of the file,
\* getCodeContext returns the fallback window
\* max(1, t - 50) .. min(len, t + 50), not the range of a declaration above.
C8_FallbackOutsideMethods ==
    ( /\ Returned
      /\ targetLine \in 1..Len(allLines)
      /\ OutsideEveryMethod(allLines, targetLine) )
    => /\ pc = "returnedFallback"
       /\ result.startLine = Max(1, targetLine - reasonableContext)
       /\ result.endLine = Min(Len(allLines), targetLine + reasonableContext)

\* the file has arrived and the call has come to its end
fetchedAndEnded == allLines # << >> /\ pc # "resolved"

\* C9: if targetLine is greater than the number of lines of the fetched
\* file, getCodeContext ends with an error thrown to the caller: no
\* CodeContext is returned, neither a clamped range nor the placeholder.
C9_TooLargeLineThrows ==
    (fetchedAndEnded /\ targetLine > Len(allLines))
        => pc = "thrown" /\ result = NoResult

C9_TooLargeLineRejected ==
    /\ fetchedAndEnded
    /\ targetLine = Len(allLines) + 1
    /\ pc = "thrown"

\* C10: a call with targetLine < 1 fails with an error as a too-large line
\* number does, and never returns a CodeContext.
C10_LineBelowOneThrows ==
    (fetchedAndEnded /\ targetLine < 1) => pc = "thrown" /\ result = NoResult

\* lines of a block comment or a text block: what their braces are depends
\* on the lines around them
ContextLines ==
    { L_commentOpen, L_commentBody, L_commentClose,
      L_textOpen, L_textBody, L_textClose }

\* the Java nesting depth from line i (1-based) to the end of the file:
\* closed when the depth came back to 0 after an opening brace, else the
\* depth at the last line and whether an opening brace was met
RECURSIVE depthAtEof(_, _, _, _)
depthAtEof(lines, i, level, seen) ==
    IF i > Len(lines) THEN [closed |-> FALSE, level |-> level, seen |-> seen]
    ELSE LET l2 == level + structuralDepth(lines[i])
             s2 == seen \/ structuralDepth(lines[i]) > 0
         IN  IF s2 /\ l2 = 0
             THEN [closed |-> TRUE, level |-> 0, seen |-> TRUE]
             ELSE depthAtEof(lines, i + 1, l2, s2)

\* the line (1-based) on which the located signature ends
signatureEndLine ==
    locateSignature(allLines, targetLine - 1).signatureEndIndex + 1

\* a method was returned whose braces, counted from a signature end line
\* that holds a brace, are not closed at the end of the file
unclosedAtEof ==
    /\ pc = "returnedMethod"
    /\ includes(allLines[signatureEndLine], OpenBrace)
    /\ \A i \in signatureEndLine..Len(allLines) : allLines[i] \notin ContextLines
    /\ ~depthAtEof(allLines, signatureEndLine, 0, FALSE).closed

C12_MissIsNeverAnError ==
    (fetchedAndEnded /\ targetLine \in 1..Len(allLines))
        => /\ Returned
           /\ 1 <= result.startLine
           /\ result.startLine <= result.endLine
           /\ result.endLine <= Len(allLines)

C12_MissReturnedFallback ==
    /\ fetchedAndEnded
    /\ targetLine \in 1..Len(allLines)
    /\ methodBoundaries = Null
    /\ pc = "returnedFallback"
    /\ result.endLine = Len(allLines)

\* the line (1-based) on which the Java nesting depth counted from line i
\* comes back to 0 after an opening brace, or 0 when it never does
RECURSIVE closingLine(_, _, _, _)
closingLine(lines, i, level, seen) ==
    IF i > Len(lines) THEN 0
    ELSE LET l2 == level + structuralDepth(lines[i])
             s2 == seen \/ structuralDepth(lines[i]) > 0
         IN  IF s2 /\ l2 = 0 THEN i
             ELSE closingLine(lines, i + 1, l2, s2)

\* a method was returned whose body, opened on the signature end line and
\* balanced, holds the line `// closing brace: }` and no line of a block
\* comment or text block
lineCommentInBody ==
    /\ pc = "returnedMethod"
    /\ structuralDepth(allLines[signatureEndLine]) = 1
    /\ LET e == closingLine(allLines, signatureEndLine, 0, FALSE)
       IN  /\ e > 0
           /\ \E k \in (signatureEndLine + 1)..(e - 1) :
                 allLines[k] = L_lineComment
           /\ \A k \in signatureEndLine..e : allLines[k] \notin ContextLines

Calls == 1..2

\* a method with a text block, a method whose text block never closes
TextBlockFile == <<L_check, L_textOpen, L_textBody, L_textClose, L_close>>

OpenTextBlockFile == <<L_run, L_textOpen, L_textBody, L_close>>

ConcurrentTexts ==
    { join(f) : f \in { RunMethod, TextBlockFile, OpenTextBlockFile } }

Ended == { "returnedMethod", "returnedFallback", "returnedPlaceholder",
           "thrown" }

InitConcurrent ==
    /\ remote = [c \in Calls |-> << >>]
    /\ pc = [c \in Calls |-> "idle"]
    /\ targetLine = [c \in Calls |-> 0]
    /\ allLines = [c \in Calls |-> << >>]
    /\ methodBoundaries = [c \in Calls |-> Null]
    /\ result = [c \in Calls |-> NoResult]

\* lines 274-281: a new invocation, suspended at the await
CallOn(c, text, t) ==
    /\ pc[c] \in { "idle" } \cup Ended
    /\ pc' = [pc EXCEPT ![c] = "fetching"]
    /\ remote' = [remote EXCEPT ![c] = text]
    /\ targetLine' = [targetLine EXCEPT ![c] = t]
    /\ allLines' = [allLines EXCEPT ![c] = << >>]
    /\ methodBoundaries' = [methodBoundaries EXCEPT ![c] = Null]
    /\ result' = [result EXCEPT ![c] = NoResult]

FetchFailsIn(c) ==
    /\ pc[c] = "fetching"
    /\ pc' = [pc EXCEPT ![c] = catchError("AxiosError", targetLine[c]).pc]
    /\ result' = [result EXCEPT
                    ![c] = catchError("AxiosError", targetLine[c]).result]
    /\ UNCHANGED <<remote, targetLine, allLines, methodBoundaries>>

\* one buffer for all the calls: every call reads the lines fetched last
FetchResolvesShared(c) ==
    /\ pc[c] = "fetching"
    /\ pc' = [pc EXCEPT ![c] = "resolved"]
    /\ allLines' = [d \in Calls |-> split(remote[c])]
    /\ UNCHANGED <<remote, targetLine, methodBoundaries, result>>

\* line 281: `const allLines` of this invocation
FetchResolvesIn(c) ==
    /\ pc[c] = "fetching"
    /\ pc' = [pc EXCEPT ![c] = "resolved"]
    /\ allLines' = [allLines EXCEPT ![c] = split(remote[c])]
    /\ UNCHANGED <<remote, targetLine, methodBoundaries, result>>

RejectTargetLineIn(c) ==
    /\ pc[c] = "resolved"
    /\ exceedsFileLength(targetLine[c], allLines[c])
    /\ pc' = [pc EXCEPT ![c] = catchError("Error", targetLine[c]).pc]
    /\ result' = [result EXCEPT
                    ![c] = catchError("Error", targetLine[c]).result]
    /\ UNCHANGED <<remote, targetLine, allLines, methodBoundaries>>

ExtractContextIn(c) ==
    /\ pc[c] = "resolved"
    /\ ~exceedsFileLength(targetLine[c], allLines[c])
    /\ LET mb == findMethodBoundaries(allLines[c], targetLine[c] - 1, 1)
       IN  /\ methodBoundaries' = [methodBoundaries EXCEPT ![c] = mb]
           /\ IF mb.found
              THEN /\ result' = [result EXCEPT
                                   ![c] = methodContext(allLines[c], mb)]
                   /\ pc' = [pc EXCEPT ![c] = "returnedMethod"]
              ELSE /\ result' = [result EXCEPT
                        ![c] = fallbackContext(allLines[c], targetLine[c])]
                   /\ pc' = [pc EXCEPT ![c] = "returnedFallback"]
    /\ UNCHANGED <<remote, targetLine, allLines>>

NextConcurrent ==
    \E c \in Calls :
        \/ \E text \in ConcurrentTexts : \E t \in TargetLines(text) :
              CallOn(c, text, t)
        \/ FetchFailsIn(c)
        \/ FetchResolvesIn(c)
        \/ RejectTargetLineIn(c)
        \/ ExtractContextIn(c)

SpecConcurrent == InitConcurrent /\ [][NextConcurrent]_vars

\* what a call on `text` and line t yields when it is the only call ever made
\* and the fetch succeeds
aloneOutcome(text, t) ==
    IF t > Len(split(text)) THEN [pc |-> "thrown", result |-> NoResult]
    ELSE [pc     |-> IF findMethodBoundaries(split(text), t - 1, 1).found
                     THEN "returnedMethod" ELSE "returnedFallback",
          result |-> rangeOf(split(text), t)]

UnopenedCommentFile == <<L_run, L_commentTail, L_go>>

ScanFiles ==
    { sn : sn \in Snippets } \cup ProbeFiles \cup { UnopenedCommentFile }

InitScan ==
    /\ remote \in { join(f) : f \in ScanFiles }
    /\ allLines = split(remote)
    /\ targetLine \in 0..Len(split(remote))
    /\ pc = "locate"
    /\ methodBoundaries =
          [i |-> targetLine - 1, j |-> 0, k |-> 0, b |-> 0,
           signatureStartIndex |-> -1, signatureEndIndex |-> -1,
           methodStartIndex |-> -1,
           braceLevel |-> 0, seenOpeningBrace |-> FALSE, active |-> FALSE]
    /\ result = NoResult

scanLocals == methodBoundaries

\* the function returns v
returned(v) == [pc |-> "done", locals |-> v]

\* the function goes on at `place` with its locals as in `locals`
goOn(place, locals) == [pc |-> place, locals |-> locals]

\* a step takes the function to where `to` says
step(to) ==
    /\ pc' = to.pc
    /\ methodBoundaries' = to.locals
    /\ UNCHANGED <<remote, targetLine, allLines, result>>

\* lines 98-136 and 166: one iteration of the backward scan
afterLocate(lines, l) ==
    IF l.i < 0 THEN returned(Null)
    ELSE LET line    == lineAt(lines, l.i)
             trimmed == trim(line)
         IN  IF trimmed = << >>
                \/ startsWith(trimmed, LineComment)
                \/ startsWith(trimmed, Star)
             THEN goOn("locate", [l EXCEPT !.i = l.i - 1])
             ELSE IF includes(line, BlockClose)
             THEN goOn("skipComment", l)
             ELSE IF hasModifier(line) \/ isPackageMethod(line)
             THEN goOn("signature",
                       [l EXCEPT !.signatureStartIndex = l.i, !.j = l.i])
             ELSE goOn("locate", [l EXCEPT !.i = l.i - 1])

LocateStep == pc = "locate" /\ step(afterLocate(allLines, scanLocals))

\* a skip that hands the line it stops on back to the backward scan
stuckSkipComment(lines, l) ==
    IF l.i >= 0 /\ ~includes(lineAt(lines, l.i), BlockOpen)
    THEN goOn("skipComment", [l EXCEPT !.i = l.i - 1])
    ELSE goOn("locate", l)

\* lines 108-109: one iteration of the inner while, then `continue`
afterSkipComment(lines, l) ==
    IF l.i >= 0 /\ ~includes(lineAt(lines, l.i), BlockOpen)
    THEN goOn("skipComment", [l EXCEPT !.i = l.i - 1])
    ELSE goOn("locate", [l EXCEPT !.i = l.i - 1])

SkipCommentStep ==
    pc = "skipComment" /\ step(afterSkipComment(allLines, scanLocals))

\* lines 139-162: one iteration of the forward scan
afterSignature(lines, l) ==
    IF l.j >= Len(lines) THEN goOn("locate", [l EXCEPT !.i = l.i - 1])
    ELSE IF endsSignature(lineAt(lines, l.j))
    THEN goOn("annotations",
              [l EXCEPT !.signatureEndIndex = l.j,
                        !.methodStartIndex = l.signatureStartIndex,
                        !.k = l.signatureStartIndex - 1])
    ELSE IF l.j - l.i > SignatureLookahead
    THEN goOn("locate", [l EXCEPT !.i = l.i - 1])
    ELSE goOn("signature", [l EXCEPT !.j = l.j + 1])

SignatureStep ==
    pc = "signature" /\ step(afterSignature(allLines, scanLocals))

\* lines 186-201: after the annotation walk, a bodyless declaration returns,
\* anything else enters the brace matching
afterAnnotations(lines, l) ==
    LET signatureLine == lineAt(lines, l.signatureEndIndex)
    IN  IF endsWithSemicolonPattern(signatureLine)
           /\ ~includes(signatureLine, OpenBrace)
        THEN returned([found |-> TRUE,
                       methodStart |-> 1 + l.methodStartIndex,
                       methodEnd |-> 1 + l.signatureEndIndex])
        ELSE goOn("body", [l EXCEPT !.b = l.signatureEndIndex,
                                    !.braceLevel = 0,
                                    !.seenOpeningBrace = FALSE,
                                    !.active = FALSE])

\* lines 170-183: one iteration of the annotation walk
afterAnnotation(lines, l) ==
    IF l.k < 0 THEN afterAnnotations(lines, l)
    ELSE LET line == lineAt(lines, l.k)
         IN  IF trim(line) # << >>
                /\ ~startsWith(trim(line), LineComment)
                /\ annotationPattern(line)
             THEN goOn("annotations",
                       [l EXCEPT !.methodStartIndex = l.k, !.k = l.k - 1])
             ELSE afterAnnotations(lines, l)

AnnotationStep ==
    pc = "annotations" /\ step(afterAnnotation(allLines, scanLocals))

\* lines 226-237: the function returns the method ending at index e
returnedEnd(l, e) ==
    returned([found |-> TRUE,
              methodStart |-> 1 + l.methodStartIndex,
              methodEnd |-> 1 + e])

\* lines 204-237: one iteration of the brace matching
afterBody(lines, l) ==
    IF l.b >= Len(lines)
    THEN returnedEnd(l, IF ~l.seenOpeningBrace THEN l.signatureEndIndex
                        ELSE IF l.braceLevel # 0 THEN Len(lines) - 1
                        ELSE l.signatureEndIndex)
    ELSE LET c  == cleanLine(lineAt(lines, l.b), l.active)
             s2 == countBraces(c.cleaned, 1,
                       [braceLevel |-> l.braceLevel,
                        seenOpeningBrace |-> l.seenOpeningBrace])
         IN  IF s2.seenOpeningBrace /\ s2.braceLevel = 0
             THEN returnedEnd(l, l.b)
             ELSE goOn("body", [l EXCEPT !.b = l.b + 1,
                                         !.braceLevel = s2.braceLevel,
                                         !.seenOpeningBrace = s2.seenOpeningBrace,
                                         !.active = c.active])

BodyStep == pc = "body" /\ step(afterBody(allLines, scanLocals))

NextScan ==
    \/ LocateStep
    \/ SkipCommentStep
    \/ SignatureStep
    \/ AnnotationStep
    \/ BodyStep

SpecScan == InitScan /\ [][NextScan]_vars

\* the loops yield what the function yields
ScanAgreesWithFunction ==
    pc = "done" =>
        methodBoundaries = findMethodBoundaries(allLines, targetLine - 1, 1)

\* where the cursors stand
ScanCursorsInBounds ==
    /\ pc \in { "locate", "skipComment" } =>
          scanLocals.i \in -2..(targetLine - 1)
    /\ pc = "signature" =>
          /\ scanLocals.i \in 0..(Len(allLines) - 1)
          /\ scanLocals.j \in scanLocals.i..Len(allLines)
          /\ scanLocals.j - scanLocals.i <= SignatureLookahead + 1
    /\ pc = "annotations" =>
          scanLocals.k \in -1..(scanLocals.signatureStartIndex - 1)
    /\ pc = "body" =>
          scanLocals.b \in scanLocals.signatureEndIndex..Len(allLines)

\* every iteration moves its cursor, the backward ones down, the forward
\* ones up; leaving the forward signature scan without an end moves the
\* backward cursor down
ScanCursorsMove ==
    /\ (pc \in { "locate", "skipComment" }
           /\ pc' \in { "locate", "skipComment" } /\ pc' # "skipComment")
          => scanLocals'.i < scanLocals.i
    /\ (pc = "skipComment" /\ pc' = "skipComment")
          => scanLocals'.i < scanLocals.i
    /\ (pc = "signature" /\ pc' = "signature") => scanLocals'.j > scanLocals.j
    /\ (pc = "signature" /\ pc' = "locate") => scanLocals'.i < scanLocals.i
    /\ (pc = "annotations" /\ pc' = "annotations")
          => scanLocals'.k < scanLocals.k
    /\ (pc = "body" /\ pc' = "body") => scanLocals'.b > scanLocals.b

\* every place of the scan has its step: the five steps are total on their
\* places
ScanPlaces ==
    pc \in { "locate", "skipComment", "signature", "annotations", "body",
             "done" }

\* a variant of the scan: the iterations left at most, counting Len + 3 for
\* each line the backward scan still has to visit
scanMeasure ==
    LET n == Len(allLines)
        w == n + 3
        l == scanLocals
    IN  IF pc = "done" THEN 0
        ELSE IF pc = "body" THEN 1 + (n - l.b)
        ELSE IF pc = "annotations" THEN n + 3 + l.k
        ELSE 2 * n + 3 + (l.i + 2) * w
               + (IF pc = "locate" THEN n + 2
                  ELSE IF pc = "signature" THEN 1 + (n - l.j)
                  ELSE 0)

\* C15: once the file is in memory every extraction terminates: the backward
\* scan and its skip over a block comment strictly decrease their cursor,
\* each forward signature scan stops within the lookahead or at the end of
\* the file, the annotation walk and the body scan stay within the file, and
\* every iteration of every loop brings the function nearer to its return.
C15_ScanTerminates ==
    /\ [](ScanPlaces /\ ScanCursorsInBounds /\ ScanAgreesWithFunction
          /\ scanMeasure >= 0)
    /\ [][ScanCursorsMove /\ scanMeasure' < scanMeasure]_vars

\* the skip over a block comment whose opening line is missing has run the
\* cursor below the first line, and the function has returned all the same
C15_SkippedPastFirstLine ==
    /\ pc = "done"
    /\ allLines = UnopenedCommentFile
    /\ targetLine = 3
    /\ methodBoundaries = Null

\* lines that carry a modifier keyword and are no method signature: a field,
\* a synchronized block, a local declaration
ModifierBearingStatements == { L_field, L_sync, L_finalLocal }

\* the line (1-based) on which the located signature starts
signatureStartLine ==
    locateSignature(allLines, targetLine - 1).signatureStartIndex + 1

\* C16: the Signature Locator accepts a line as a modifier-led declaration
\* only if the modifier is followed on that line by a parenthesised parameter
\* list: a field or local declaration or a `synchronized (lock) {` block is
\* never selected as the signature start.
C16_ModifierAloneIsNoSignature ==
    pc = "returnedMethod" =>
        allLines[signatureStartLine] \notin ModifierBearingStatements

(***************************************************************************)
(* The lines the modifier-less pattern is tried on, put together from a    *)
(* leading indent, a first word, a separator, a name, an opening           *)
(* parenthesis and a rest.  `kind` says what the part is as Java.          *)
(***************************************************************************)
LineLeads == { << >>, <<" "," ">> }

LineHeads ==
    { [text |-> <<"v","o","i","d">>,
       kind |-> "primitive"],
      [text |-> <<"i","n","t">>,
       kind |-> "primitive"],
      [text |-> <<"b","o","o","l","e","a","n">>,
       kind |-> "primitive"],
      [text |-> <<"F","o","o">>,
       kind |-> "capitalised"],
      [text |-> <<"L","i","s","t","<","F","o","o",">">>,
       kind |-> "capitalised"],
      [text |-> <<"F","o","o",".","B","a","r">>,
       kind |-> "capitalised"],
      [text |-> <<"<","T",">"," ","T">>,
       kind |-> "generic"],
      [text |-> <<"i","f">>,
       kind |-> "control"],
      [text |-> <<"w","h","i","l","e">>,
       kind |-> "control"],
      [text |-> <<"f","o","r">>,
       kind |-> "control"],
      [text |-> <<"s","w","i","t","c","h">>,
       kind |-> "control"],
      [text |-> <<"e","l","s","e">>,
       kind |-> "control"],
      [text |-> <<"r","e","t","u","r","n">>,
       kind |-> "control"],
      [text |-> <<"t","h","r","o","w">>,
       kind |-> "control"],
      [text |-> <<"c","a","s","e">>,
       kind |-> "control"],
      [text |-> <<"n","e","w">>,
       kind |-> "control"],
      [text |-> <<"f","o","o">>,
       kind |-> "other"],
      [text |-> <<"a",".","b">>,
       kind |-> "other"],
      [text |-> <<"@","A">>,
       kind |-> "other"],
      [text |-> <<"p","u","b","l","i","c">>,
       kind |-> "modifier"] }

LineSeparators == { << >>, <<" ">> }

LineNames ==
    { [text |-> <<"c","h","e","c","k">>, kind |-> "identifier"],
      [text |-> << >>, kind |-> "none"],
      [text |-> <<"a",".","b">>, kind |-> "dotted"],
      [text |-> <<"n"," ","="," ","f">>, kind |-> "assignment"] }

LineParens == { <<"(">>, <<" ","(">>, << >> }

LineRests ==
    { << >>,
      <<")"," ","{">>,
      <<")",";">>,
      <<"x"," ","=","="," ","1",")"," ","{">>,
      <<"a",".","b","(",")",")",";">> }

CandidateLines ==
    [lead : LineLeads, head : LineHeads, sep : LineSeparators,
     name : LineNames, paren : LineParens, rest : LineRests]

textOf(cand) ==
    cand.lead \o cand.head.text \o cand.sep \o cand.name.text \o cand.paren
              \o cand.rest

\* remote is the candidate, allLines the one line it makes; result is what
\* the locator makes of the line
InitLines ==
    /\ remote \in CandidateLines
    /\ allLines = << textOf(remote) >>
    /\ pc = "candidate"
    /\ targetLine = 1
    /\ methodBoundaries = Null
    /\ result = NoResult

\* lines 113-134 on the line under the cursor
TestLine ==
    /\ pc = "candidate"
    /\ pc' = "tested"
    /\ result' = [hasModifier     |-> hasModifier(allLines[1]),
                  isPackageMethod |-> isPackageMethod(allLines[1])]
    /\ UNCHANGED <<remote, targetLine, allLines, methodBoundaries>>

NextLines == TestLine

SpecLines == InitLines /\ [][NextLines]_vars

\* the candidate begins with a return-type token that an identifier and `(`
\* follow
typeNameParen(cand) ==
    /\ cand.head.kind \in { "primitive", "capitalised", "generic" }
    /\ cand.sep = <<" ">>
    /\ cand.name.kind = "identifier"
    /\ cand.paren # << >>

\* the candidate holds a `.` before its first `(`
dotBeforeParen(cand) ==
    \/ "." \in { cand.head.text[k] : k \in 1..Len(cand.head.text) }
    \/ cand.name.kind = "dotted"
    \/ cand.paren = << >> /\ cand.name.kind # "assignment"
          /\ cand.rest = <<"a",".","b","(",")",")",";">>

\* the candidate holds a `=`
holdsAssignment(cand) ==
    \/ cand.name.kind = "assignment"
    \/ "=" \in { cand.rest[k] : k \in 1..Len(cand.rest) }

\* C17: a line without a modifier is chosen through the modifier-less
\* pattern only if it begins with a return-type token followed by an
\* identifier and `(`, begins with none of if/while/for/switch/else/return/
\* throw/case/new, holds no `=` and has no `.` before its first `(`.
C17_PackagePatternOnlyForDeclarations ==
    (pc = "tested" /\ result.isPackageMethod) =>
        /\ ~result.hasModifier
        /\ typeNameParen(remote)
        /\ remote.head.kind # "control"
        /\ ~holdsAssignment(remote)
        /\ ~dotBeforeParen(remote)

\* a generic declaration with a call in its rest was chosen
C17_GenericDeclarationChosen ==
    /\ pc = "tested"
    /\ result.isPackageMethod
    /\ remote.head.kind = "generic"
    /\ remote.rest = <<"a",".","b","(",")",")",";">>

\* the target line holds a complete inline block comment, matches a
\* declaration pattern and opens the body
inlineCommentedSignature ==
    /\ targetLine \in 1..Len(allLines)
    /\ includes(allLines[targetLine], BlockOpen)
    /\ includes(allLines[targetLine], BlockClose)
    /\ hasModifier(allLines[targetLine]) \/ isPackageMethod(allLines[targetLine])
    /\ includes(allLines[targetLine], OpenBrace)

\* C18: the jump over a block comment is taken only on a line that holds
\* `*/` and no `/*`; a line that holds a complete inline block comment, such
\* as the signature `public void f(/* id */ int a) {`, is not skipped and is
\* tested against the two declaration patterns, so that a target on such a
\* signature line is located on it.
C18_InlineCommentLineIsTested ==
    (Returned /\ inlineCommentedSignature) =>
        /\ pc = "returnedMethod"
        /\ signatureStartLine = targetLine

\* the index of the first line, going up from index i, that the backward
\* scan tests and finds to match a declaration pattern (lines 98-134, the
\* search for the signature end left aside), -1 when there is none
RECURSIVE nearestDeclaration(_, _)
nearestDeclaration(lines, i) ==
    IF i < 0 THEN -1
    ELSE LET line    == lineAt(lines, i)
             trimmed == trim(line)
         IN  IF trimmed = << >> THEN nearestDeclaration(lines, i - 1)
             ELSE IF startsWith(trimmed, LineComment) \/ startsWith(trimmed, Star)
                  THEN nearestDeclaration(lines, i - 1)
             ELSE IF includes(line, BlockClose)
                  THEN nearestDeclaration(lines, skipToCommentOpener(lines, i) - 1)
             ELSE IF hasModifier(line) \/ isPackageMethod(line)
                  THEN i
             ELSE nearestDeclaration(lines, i - 1)

\* the nearest matching declaration at or above the target is the first line
\* of a method signature and has no signature end within the lookahead
nearestDeclarationUnended ==
    LET s == nearestDeclaration(allLines, targetLine - 1)
    IN  /\ s # -1
        /\ IsMethodStart(lineAt(allLines, s))
        /\ scanSignatureEnd(allLines, s, s) = -1

\* C19: when the nearest matching declaration line at or above the target
\* has no signature end within the lookahead, the extraction yields
\* NOT_FOUND and getCodeContext returns the fallback window; no declaration
\* further up the file is selected as the enclosing method.
C19_UnendedDeclarationFallsBack ==
    (Returned /\ nearestDeclarationUnended) => pc = "returnedFallback"

\* C20: whenever a signature end is resolved, signatureEndIndex -
\* signatureStartIndex <= 30; a qualifying line that first occurs more than
\* 30 lines after the signature start is not accepted.
C20_SignatureEndWithinLookahead ==
    pc = "returnedMethod" =>
        signatureEndLine - signatureStartLine <= SignatureLookahead

\* annotation-only lines whose argument list holds an annotation of its own
NestedAnnotationLines == { L_annotNested }

\* the topmost line of the run of annotation-only lines, of either form,
\* directly above line s
RECURSIVE annotationRunTop(_, _)
annotationRunTop(lines, s) ==
    IF s > 1 /\ lines[s - 1] \in AnnotationLines \cup NestedAnnotationLines
    THEN annotationRunTop(lines, s - 1) ELSE s

\* C21: the Annotation Merger returns the topmost line of the maximal run of
\* annotation-only lines contiguous with the signature start; a blank line, a
\* line comment or any other line ends the run, and the signature start is
\* returned unchanged when the line directly above is no annotation.
C21_MethodStartIsAnnotationRunTop ==
    pc = "returnedMethod" =>
        methodBoundaries.methodStart
            = annotationRunTop(allLines, signatureStartLine)

\* the depth after the scrubbed characters of one line, character k onwards,
\* and whether it has been positive so far
RECURSIVE depthOver(_, _, _)
depthOver(cleaned, k, d) ==
    IF k > Len(cleaned) THEN d
    ELSE LET level == d.level + (IF cleaned[k] = "{" THEN 1
                                 ELSE IF cleaned[k] = "}" THEN -1 ELSE 0)
         IN  depthOver(cleaned, k + 1,
                       [level |-> level, positive |-> d.positive \/ level > 0])

\* the first line (1-based), from line i on, at whose end the depth is back
\* to zero after having been positive; 0 when there is none
RECURSIVE firstReturnToZero(_, _, _, _)
firstReturnToZero(lines, i, d, active) ==
    IF i > Len(lines) THEN 0
    ELSE LET c  == cleanLine(lines[i], active)
             d2 == depthOver(c.cleaned, 1, d)
         IN  IF d2.positive /\ d2.level = 0 THEN i
             ELSE firstReturnToZero(lines, i + 1, d2, c.active)

\* the located signature ends on a line that opens a body
bodiedDeclaration ==
    /\ pc = "returnedMethod"
    /\ includes(allLines[signatureEndLine], OpenBrace)

\* C22: for a bodied declaration, methodEnd is the first line i >=
\* signatureEndIndex at which the depth, counted over the scrubbed characters
\* of lines signatureEndIndex..i, returns to zero after having been positive
\* at least once; lines before signatureEndIndex do not contribute.
C22_MethodEndIsFirstReturnToZero ==
    bodiedDeclaration =>
        LET e == firstReturnToZero(allLines, signatureEndLine,
                                   [level |-> 0, positive |-> FALSE], FALSE)
        IN  e # 0 => methodBoundaries.methodEnd = e

(***************************************************************************)
(* cleanLine on its own: the lines it is given are put together from at    *)
(* most MaxTokens tokens, each followed by a space, and it is entered with *)
(* the text-block flag down or up.                                         *)
(***************************************************************************)
MaxTokens == 4

\* """, {, }, a, "//", "/*", "*/" and '"'
ScrubTokens ==
    { [text |-> TripleQuote, kind |-> "delimiter"],
      [text |-> <<"{">>, kind |-> "open"],
      [text |-> <<"}">>, kind |-> "close"],
      [text |-> <<"a">>, kind |-> "word"],
      [text |-> <<"\"","/","/","\"">>, kind |-> "literal"],
      [text |-> <<"\"","/","*","\"">>, kind |-> "literal"],
      [text |-> <<"\"","*","/","\"">>, kind |-> "literal"],
      [text |-> <<"'","\"","'">>, kind |-> "literal"] }

TokenLines ==
    UNION { [1..n -> ScrubTokens] : n \in 1..MaxTokens }

RECURSIVE textOfTokens(_, _)
textOfTokens(tokens, k) ==
    IF k > Len(tokens) THEN << >>
    ELSE tokens[k].text \o <<" ">> \o textOfTokens(tokens, k + 1)

\* remote holds the arguments of the call, allLines the line as text and
\* methodBoundaries the textBlockState object
InitClean ==
    /\ remote \in [tokens : TokenLines, active : BOOLEAN]
    /\ allLines = << textOfTokens(remote.tokens, 1) >>
    /\ pc = "scrubbing"
    /\ targetLine = 1
    /\ methodBoundaries = [active |-> remote.active]
    /\ result = << >>

\* lines 28-69: one call of cleanLine
CleanLine ==
    /\ pc = "scrubbing"
    /\ pc' = "scrubbed"
    /\ result' = cleanLine(allLines[1], methodBoundaries.active).cleaned
    /\ methodBoundaries' =
          [active |-> cleanLine(allLines[1], methodBoundaries.active).active]
    /\ UNCHANGED <<remote, targetLine, allLines>>

NextClean == CleanLine

SpecClean == InitClean /\ [][NextClean]_vars

\* whether a text block is open after token k - 1, the delimiters closing
\* and opening a block in turn from the entry state
RECURSIVE blockOpenBefore(_, _, _)
blockOpenBefore(tokens, k, entry) ==
    IF k = 1 THEN entry
    ELSE LET before == blockOpenBefore(tokens, k - 1, entry)
         IN  IF tokens[k - 1].kind = "delimiter" THEN ~before ELSE before

\* the tokens of kind `kind` that stand outside every text block
outsideTokens(tokens, entry, kind) ==
    { k \in 1..Len(tokens) :
        tokens[k].kind = kind /\ ~blockOpenBefore(tokens, k, entry) }

\* how often the character ch stands in s
occurrences(s, ch) == Cardinality({ k \in 1..Len(s) : s[k] = ch })

\* C23: for every line and every entry value of the text-block flag, after
\* cleanLine the flag is up exactly when a text block is left open at the
\* end of the line, the delimiters of the line closing and opening a block
\* in turn from the entry state, and no character inside a text block is left
\* in the returned string.
C23_FlagFollowsDelimiters ==
    pc = "scrubbed" =>
        /\ methodBoundaries.active
              = blockOpenBefore(remote.tokens, Len(remote.tokens) + 1,
                                remote.active)
        /\ occurrences(result, "{")
              <= Cardinality(outsideTokens(remote.tokens, remote.active, "open"))
        /\ occurrences(result, "}")
              <= Cardinality(outsideTokens(remote.tokens, remote.active, "close"))
        /\ occurrences(result, "a")
              <= Cardinality(outsideTokens(remote.tokens, remote.active, "word"))

\* C26: scrubbing never removes a structural brace: every `{` and `}` of the
\* line that stands outside literals, comments and text blocks is still in
\* the output of cleanLine, also when it follows a string literal that holds
\* `//` or `/*` or a character literal that holds a double quote.
C26_StructuralBracesSurvive ==
    pc = "scrubbed" =>
        /\ occurrences(result, "{")
              >= Cardinality(outsideTokens(remote.tokens, remote.active, "open"))
        /\ occurrences(result, "}")
              >= Cardinality(outsideTokens(remote.tokens, remote.active, "close"))

\* C24: the re-scan of getCodeContext fixes the reported start between the
\* annotation-merged start and the signature line: the final startLine is
\* methodStart as findMethodBoundaries returned it or the signature start
\* line the locator found, never a line after the signature start, so that
\* startLine <= targetLine on the method path.
C24_StartLineIsMethodOrSignatureStart ==
    pc = "returnedMethod" =>
        /\ result.startLine \in { methodBoundaries.methodStart,
                                  signatureStartLine }
        /\ result.startLine <= targetLine

\* C25: when findMethodBoundaries returns null, getCodeContext returns
\* exactly startLine = max(1, t - 50) and endLine = min(len, t + 50) for
\* target line t: a window of 50 lines on each side of the target, cut at the
\* bounds of the file, which holds t whenever t is a line of the file.
C25_FallbackWindowIsClamped ==
    pc = "returnedFallback" =>
        /\ result.startLine = Max(1, targetLine - 50)
        /\ result.endLine = Min(Len(allLines), targetLine + 50)
        /\ targetLine >= 1 =>
              /\ result.startLine <= targetLine
              /\ targetLine <= result.endLine

\* the window around the last line of the long file starts after the first
\* line
C25_WindowInsideLongFile ==
    /\ pc = "returnedFallback"
    /\ allLines = LongFile
    /\ targetLine = Len(LongFile)
    /\ result.startLine = 3
    /\ result.endLine = Len(LongFile)

\* C27: for every file and every target line t with 1 <= t <= len, the
\* CodeContext returned satisfies 1 <= startLine <= endLine <= len on the
\* method path and on the fallback path; inside findMethodBoundaries
\* methodStartIndex <= signatureStartIndex <= signatureEndIndex <=
\* methodEndIndex <= len - 1 whenever a boundary is returned.
C27_RangesAreOrderedAndInsideFile ==
    (Returned /\ targetLine >= 1) =>
        /\ 1 <= result.startLine
        /\ result.startLine <= result.endLine
        /\ result.endLine <= Len(allLines)
        /\ pc = "returnedMethod" =>
              /\ methodBoundaries.methodStart <= signatureStartLine
              /\ signatureStartLine <= signatureEndLine
              /\ signatureEndLine <= methodBoundaries.methodEnd
              /\ methodBoundaries.methodEnd <= Len(allLines)

\* a method below an annotation was returned for a target in its body: the
\* four indices are all different
C27_AnnotatedMultiLineReturned ==
    /\ pc = "returnedMethod"
    /\ targetLine >= 1
    /\ methodBoundaries.methodStart < signatureStartLine
    /\ signatureStartLine < signatureEndLine
    /\ signatureEndLine < methodBoundaries.methodEnd

(***************************************************************************)
(* The two HTTP servers, http-server.ts and compatible-server.ts.  The     *)
(* variables hold, for a server:                                           *)
(*   remote            which main() runs (serverKind)                      *)
(*   methodBoundaries  the map `transports`, session id to transport       *)
(*                     (0: no entry)                                       *)
(*   allLines          the transport objects created so far, in order      *)
(*   pc                the handlers suspended at `await                    *)
(*                     server.connect(transport)`: their new transport and *)
(*                     the body of their request                           *)
(*   result            the last request answered and its answer            *)
(*   targetLine        not used                                            *)
(* The session id a transport generates (randomUUID) is fresh: it is       *)
(* written as the number of the transport.                                 *)
(***************************************************************************)
MaxTransports == 3

serverKind == remote

transports == methodBoundaries

objects == allLines

connecting == pc

response == result

\* the values of the mcp-session-id header or sessionId parameter: 0 is a
\* request without one, MaxTransports + 1 an id no transport ever had
SessionIds == 1..MaxTransports

RequestIds == 0..(MaxTransports + 1)

Methods == { "POST", "GET", "DELETE" }

Bodies == { "initialize", "call" }

NoResponse ==
    [route |-> "", method |-> "", sessionId |-> 0, body |-> "",
     existing |-> "none", status |-> 0, transport |-> 0]

\* transports[sessionId], 0 when there is no entry
stored(sessionId) ==
    IF sessionId \in SessionIds THEN transports[sessionId] ELSE 0

\* what the entry under the session id is an instance of
instanceOf(sessionId) ==
    IF stored(sessionId) = 0 THEN "none" ELSE objects[stored(sessionId)].kind

\* a test that takes every body for an initialize request
anyBodyInitializes(body) == TRUE

isInitializeRequest(body) == body = "initialize"

InitServer ==
    /\ remote \in { "http-server", "compatible-server" }
    /\ methodBoundaries = [k \in SessionIds |-> 0]
    /\ allLines = << >>
    /\ pc = {}
    /\ result = NoResponse
    /\ targetLine = 0

answer(route, method, sessionId, body, existing, status, transport) ==
    result' = [route |-> route, method |-> method, sessionId |-> sessionId,
               body |-> body, existing |-> existing, status |-> status,
               transport |-> transport]

\* transport.handleRequest on the transport t of an open session: DELETE
\* closes the session (onsessionclosed: delete transports[sessionId]), any
\* other request is answered by the transport
handleRequest(t, method, sessionId, body) ==
    /\ answer("/mcp", method, sessionId, body, instanceOf(sessionId), 200, t)
    /\ IF method = "DELETE"
       THEN /\ methodBoundaries' = [transports EXCEPT ![sessionId] = 0]
            /\ allLines' = [objects EXCEPT ![t].state = "closed"]
       ELSE UNCHANGED <<methodBoundaries, allLines>>

badRequest(route, method, sessionId, body, status) ==
    /\ answer(route, method, sessionId, body, instanceOf(sessionId), status, 0)
    /\ UNCHANGED <<methodBoundaries, allLines>>

\* a check that lets every stored transport pass
unchecked(kind, expected) == TRUE

\* existingTransport instanceof StreamableHTTPServerTransport (or
\* SSEServerTransport)
typeChecked(kind, expected) == kind = expected

\* http-server.ts 57-82, compatible-server.ts 94-119: an initialize request
\* without a session id makes a new transport and waits for the connect
CreateStreamableTransport(body) ==
    /\ isInitializeRequest(body)
    /\ Len(objects) < MaxTransports
    /\ allLines' = Append(objects, [kind |-> "streamable", sessionId |-> 0,
                                    state |-> "connecting"])
    /\ pc' = connecting \cup { [transport |-> Len(objects) + 1,
                                body |-> body] }
    /\ UNCHANGED <<remote, targetLine, methodBoundaries, result>>

\* http-server.ts 96 and 61-64, compatible-server.ts 134 and 98-101: the
\* transport handles the initialize request, generates its session id and
\* calls onsessioninitialized
InitializeSession(t, body) ==
    /\ [transport |-> t, body |-> body] \in connecting
    /\ pc' = connecting \ { [transport |-> t, body |-> body] }
    /\ allLines' = [objects EXCEPT ![t].sessionId = t, ![t].state = "open"]
    /\ methodBoundaries' = [transports EXCEPT ![t] = t]
    /\ answer("/mcp", "POST", 0, body, "none", 200, t)
    /\ UNCHANGED <<remote, targetLine>>

\* http-server.ts 44-146: app.post, app.get and app.delete on /mcp, but for
\* the initialize request
HttpMcpRequest(method, sessionId, body) ==
    /\ remote = "http-server"
    /\ ~(method = "POST" /\ sessionId = 0 /\ isInitializeRequest(body))
    /\ IF stored(sessionId) # 0
       THEN handleRequest(stored(sessionId), method, sessionId, body)
       ELSE badRequest("/mcp", method, sessionId, body, 400)
    /\ UNCHANGED <<remote, targetLine, pc>>

\* compatible-server.ts 68-148: app.all on /mcp, but for the initialize
\* request
CompatibleMcpRequest(method, sessionId, body) ==
    /\ remote = "compatible-server"
    /\ ~(method = "POST" /\ sessionId = 0 /\ isInitializeRequest(body))
    /\ IF stored(sessionId) # 0
          /\ typeChecked(instanceOf(sessionId), "streamable")
       THEN handleRequest(stored(sessionId), method, sessionId, body)
       ELSE badRequest("/mcp", method, sessionId, body, 400)
    /\ UNCHANGED <<remote, targetLine, pc>>

\* http-server.ts 72-78, compatible-server.ts 109-115: transport.onclose
TransportCloses(t) ==
    /\ t \in 1..Len(objects)
    /\ objects[t].kind = "streamable"
    /\ objects[t].state = "open"
    /\ allLines' = [objects EXCEPT ![t].state = "closed"]
    /\ methodBoundaries' =
          IF stored(objects[t].sessionId) # 0
          THEN [transports EXCEPT ![objects[t].sessionId] = 0]
          ELSE transports
    /\ UNCHANGED <<remote, targetLine, pc, result>>

\* compatible-server.ts 158-186: GET /sse
GetSse ==
    /\ remote = "compatible-server"
    /\ Len(objects) < MaxTransports
    /\ LET t == Len(objects) + 1
       IN  /\ allLines' = Append(objects, [kind |-> "sse", sessionId |-> t,
                                           state |-> "open"])
           /\ methodBoundaries' = [transports EXCEPT ![t] = t]
           /\ answer("/sse", "GET", 0, "", "none", 200, t)
    /\ UNCHANGED <<remote, targetLine, pc>>

\* compatible-server.ts 172-175: res.on("close")
SseConnectionCloses(t) ==
    /\ t \in 1..Len(objects)
    /\ objects[t].kind = "sse"
    /\ objects[t].state = "open"
    /\ allLines' = [objects EXCEPT ![t].state = "closed"]
    /\ methodBoundaries' = [transports EXCEPT ![objects[t].sessionId] = 0]
    /\ UNCHANGED <<remote, targetLine, pc, result>>

\* compatible-server.ts 192-243: POST /messages
PostMessages(sessionId, body) ==
    /\ remote = "compatible-server"
    /\ IF sessionId = 0
       THEN badRequest("/messages", "POST", sessionId, body, 400)
       ELSE IF stored(sessionId) = 0
       THEN badRequest("/messages", "POST", sessionId, body, 404)
       ELSE IF typeChecked(instanceOf(sessionId), "sse")
       THEN /\ answer("/messages", "POST", sessionId, body, "sse", 202,
                      stored(sessionId))
            /\ UNCHANGED <<methodBoundaries, allLines>>
       ELSE badRequest("/messages", "POST", sessionId, body, 400)
    /\ UNCHANGED <<remote, targetLine, pc>>

NextServer ==
    \/ \E b \in Bodies : CreateStreamableTransport(b)
    \/ \E t \in 1..MaxTransports, b \in Bodies : InitializeSession(t, b)
    \/ \E m \in Methods, s \in RequestIds, b \in Bodies :
          HttpMcpRequest(m, s, b)
    \/ \E m \in Methods, s \in RequestIds, b \in Bodies :
          CompatibleMcpRequest(m, s, b)
    \/ \E t \in 1..MaxTransports : TransportCloses(t)
    \/ GetSse
    \/ \E t \in 1..MaxTransports : SseConnectionCloses(t)
    \/ \E s \in RequestIds, b \in Bodies : PostMessages(s, b)

SpecServer == InitServer /\ [][NextServer]_vars

\* the request carried the session id of a session of the other protocol
mixedRequest(r) ==
    \/ r.route = "/mcp" /\ r.existing = "sse"
    \/ r.route = "/messages" /\ r.existing = "streamable"

\* C28: in the compatible server a request to /mcp that carries the id of a
\* legacy SSE session, and a POST to /messages that carries the id of a
\* Streamable HTTP session, are answered 400; the request is not delivered
\* to the stored transport and the session registry is not changed.
C28_ProtocolsAreNotMixed ==
    /\ [](mixedRequest(response) =>
            /\ response.status = 400
            /\ response.transport = 0)
    /\ [][(response' # response /\ mixedRequest(response')) =>
            /\ transports' = transports
            /\ objects' = objects]_vars

\* a DELETE to /mcp with the id of an open SSE session was turned away
C28_DeleteOnSseSessionRejected ==
    /\ response.route = "/mcp"
    /\ response.method = "DELETE"
    /\ response.existing = "sse"
    /\ response.status = 400
    /\ stored(response.sessionId) # 0

\* the last request was the initialize request of a new session
initializeRequest(r) ==
    /\ r.route = "/mcp"
    /\ r.method = "POST"
    /\ r.sessionId = 0
    /\ r.body = "initialize"

\* C29: under any interleaving of initialize, request, close and DELETE
\* events an entry is added to `transports` only when a session is
\* initialised (POST /mcp without a session id and with an initialize body,
\* or GET /sse) and is stored under the transport's own session id; it is
\* removed when the session or connection closes; and a /mcp request without
\* a known session id that is no such initialize request is answered 400
\* and creates or alters no session.
C29_SessionRegistry ==
    /\ [](\A k \in SessionIds :
            transports[k] # 0 =>
                /\ transports[k] \in 1..Len(objects)
                /\ objects[transports[k]].sessionId = k
                /\ objects[transports[k]].state = "open")
    /\ [][\A k \in SessionIds :
            /\ (transports[k] = 0 /\ transports'[k] # 0) =>
                  /\ initializeRequest(response') \/ response'.route = "/sse"
                  /\ response'.transport = transports'[k]
                  /\ \A j \in SessionIds \ { k } : transports'[j] = transports[j]
            /\ (transports[k] # 0 /\ transports'[k] # transports[k]) =>
                  /\ transports'[k] = 0
                  /\ objects'[transports[k]].state = "closed"]_vars
    /\ [][( /\ response' # response
            /\ response'.route = "/mcp"
            /\ response'.existing = "none"
            /\ ~initializeRequest(response') ) =>
                /\ response'.status = 400
                /\ transports' = transports
                /\ objects' = objects
                /\ connecting' = connecting]_vars

\* the id of a session closed by DELETE was used again and turned away,
\* while another session is open
C29_ClosedSessionIdRejected ==
    /\ response.route = "/mcp"
    /\ response.sessionId \in 1..Len(objects)
    /\ objects[response.sessionId].state = "closed"
    /\ response.existing = "none"
    /\ response.status = 400
    /\ \E k \in SessionIds : transports[k] # 0

\* ---------------------------------------------------------------------------
\* The error tracking tools: investigate_error, create_jira_ticket and
\* track_error_full, with the three remote calls they make.  One tool
\* invocation is followed from the call of its handler to its return; each
\* awaited remote call is one step.
\* ---------------------------------------------------------------------------

\* the longest investigationData text, in tokens
MaxJsonTokens == 5

\* the most pull requests a Bitbucket reply lists
MaxPullRequests == 2

\* SpecWorkflow reads the variables as follows
\* the tool invoked and its arguments
tool == remote

\* the remote call the handler is awaiting, "idle" or "returned"
awaiting == pc

\* the remote calls made so far, each with the reply it got
apiCalls == allLines

\* the investigation result built by investigateError
investigation == methodBoundaries

\* what the caller of the tool got
outcome == result

\* the number of createJiraTicket calls made
tickets == targetLine

\* the tokens of a JSON text: the two member tokens stand for a whole
\* "codeOwner" member and a whole "pullRequests" member
MemberTokens == { "codeOwner", "pullRequests" }

JsonTokens == { "{", "}", ",", "null" } \cup MemberTokens

JsonTexts == UNION { [1..n -> JsonTokens] : n \in 0..MaxJsonTokens }

\* the code owner and the pull requests that a member token carries
ParsedOwner ==
    [commitId |-> "c1", author |-> "Ann", name |-> "ann", email |-> "ann@x"]

ParsedPullRequests == [size |-> 0, values |-> << >>]

\* a value without members; a field of a JavaScript object is a sequence
\* that is empty when the field is undefined
EmptyObject == [isNull |-> FALSE, codeOwner |-> << >>, pullRequests |-> << >>]

NullValue == [isNull |-> TRUE, codeOwner |-> << >>, pullRequests |-> << >>]

\* the arguments a tool is invoked with
NoData == [type |-> "object", tokens |-> << >>, value |-> NullValue]

InvestigationObjects ==
    { NullValue } \cup
    { [isNull |-> FALSE, codeOwner |-> o, pullRequests |-> p] :
        o \in { << >>, <<ParsedOwner>> },
        p \in { << >>, <<ParsedPullRequests>> } }

InvestigationData ==
    { [type |-> "string", tokens |-> t, value |-> NullValue] : t \in JsonTexts }
    \cup { [type |-> "object", tokens |-> << >>, value |-> v] :
             v \in InvestigationObjects }

ErrorAnalyses ==
    { [type |-> "string", tokens |-> t] :
        t \in { <<"NullPointerException">>, <<"null">>, <<"{", "}">> } }
    \cup { [type |-> "object", tokens |-> << >>] }

\* the responses of the remote services
Pending == [kind |-> "pending", values |-> << >>]

AxiosError == [kind |-> "axiosError", values |-> << >>]

Blames ==
    { [commitId |-> "c1",
       author |-> [displayName |-> d, name |-> "ann", emailAddress |-> "ann@x"]] :
        d \in { "", "Ann" } }

BlameResponses ==
    { AxiosError, [kind |-> "ok", values |-> << >>] }
    \cup { [kind |-> "ok", values |-> <<b>>] : b \in Blames }

prTargetBranch == "main"

PullRequests ==
    [name : { "ann", "bob" }, state : { "MERGED", "OPEN" },
     toRef : { prTargetBranch, "develop" }, self : { << >>, <<"href">> }]

PullRequestResponses ==
    { AxiosError }
    \cup { [kind |-> "ok", values |-> v] :
             v \in UNION { [1..n -> PullRequests] : n \in 0..MaxPullRequests } }

JiraResponses == { AxiosError, [kind |-> "ok", values |-> <<"KEY-1">>] }

\* what a function gives back: a value, or the error it threw
fulfilled(v) == [threw |-> FALSE, error |-> "", value |-> v]

thrown(e) == [threw |-> TRUE, error |-> e, value |-> << >>]

\* a handler that swallows the failure of the blame lookup
anonymousOwner(reply) ==
    fulfilled([commitId |-> "c1", author |-> "", name |-> "", email |-> ""])

\* findCodeOwner, from the reply of the blame request on
findCodeOwner(reply) ==
    IF reply.kind = "axiosError" THEN thrown("Bitbucket API error")
    ELSE IF Len(reply.values) > 0
    THEN LET blame == reply.values[1] IN
         fulfilled([commitId |-> blame.commitId,
                   author |-> IF blame.author.displayName # ""
                              THEN blame.author.displayName
                              ELSE blame.author.name,
                   name |-> blame.author.name,
                   email |-> blame.author.emailAddress])
    ELSE thrown("No blame information found for this line")

\* getPullRequestByCommit, from the reply of the pull request query on
getPullRequestByCommit(reply, filterByAuthor, filterByState) ==
    IF reply.kind = "axiosError" THEN thrown("Bitbucket API error")
    ELSE LET byAuthor(pr) == filterByAuthor = "" \/ pr.name = filterByAuthor
             byState(pr) == filterByState = "" \/ pr.state = filterByState
             byBranch(pr) == pr.toRef = prTargetBranch
             simplifiedValues ==
                 SelectSeq(SelectSeq(SelectSeq(reply.values, byAuthor),
                                     byState), byBranch)
         IN fulfilled([size |-> Len(simplifiedValues),
                      values |-> simplifiedValues])

\* the links investigateError extracts: the first self link of every pull
\* request, a TypeError when one has none
relatedPRLinks(prInfo) ==
    IF \E k \in 1..Len(prInfo.values) : Len(prInfo.values[k].self) = 0
    THEN thrown("TypeError")
    ELSE fulfilled([k \in 1..Len(prInfo.values) |-> prInfo.values[k].self[1]])

\* the members of an object text from position k on, added to obj
RECURSIVE parseMembers(_, _, _)
parseMembers(tokens, k, obj) ==
    IF k >= Len(tokens) \/ tokens[k] \notin MemberTokens
    THEN thrown("SyntaxError")
    ELSE LET put == IF tokens[k] = "codeOwner"
                    THEN [obj EXCEPT !.codeOwner = <<ParsedOwner>>]
                    ELSE [obj EXCEPT !.pullRequests = <<ParsedPullRequests>>]
         IN IF k + 1 = Len(tokens)
            THEN IF tokens[k + 1] = "}" THEN fulfilled(put)
                 ELSE thrown("SyntaxError")
            ELSE IF tokens[k + 1] = ","
                 THEN parseMembers(tokens, k + 2, put)
                 ELSE thrown("SyntaxError")

\* JSON.parse of a text given by its tokens
JSONparse(tokens) ==
    IF tokens = <<"null">> THEN fulfilled(NullValue)
    ELSE IF Len(tokens) < 2 \/ tokens[1] # "{" THEN thrown("SyntaxError")
    ELSE IF tokens = <<"{", "}">> THEN fulfilled(EmptyObject)
    ELSE parseMembers(tokens, 2, EmptyObject)

\* formatJiraDescription: the description is the error information and what
\* is listed of the owner and of the pull requests
formatJiraDescription(errorAnalysis, inv) ==
    LET parsed == JSONparse(errorAnalysis.tokens)
        nullData == /\ errorAnalysis.type = "string"
                    /\ ~parsed.threw
                    /\ parsed.value.isNull
    IN IF nullData THEN thrown("TypeError")
       ELSE fulfilled([errorInfo |-> errorAnalysis.tokens,
                      author |-> inv.codeOwner[1].author,
                      pullRequests |-> Len(inv.pullRequests[1].values)])

\* the fields createJiraTicketWithInvestigation finds missing
missingFields(inv) ==
    { f \in { "codeOwner", "pullRequests" } :
        \/ f = "codeOwner" /\ inv.codeOwner = << >>
        \/ f = "pullRequests" /\ inv.pullRequests = << >> }

\* createJiraTicketWithInvestigation up to its call of createJiraTicket:
\* the description it calls it with, or the error it throws before
createJiraTicketWithInvestigation(investigationData, errorAnalysis) ==
    LET parsed == IF investigationData.type = "string"
                  THEN JSONparse(investigationData.tokens)
                  ELSE fulfilled(investigationData.value)
    IN IF parsed.threw THEN thrown("invalid investigationData")
       ELSE IF parsed.value.isNull THEN thrown("TypeError")
       ELSE IF missingFields(parsed.value) # {}
       THEN thrown("incomplete investigationData")
       ELSE formatJiraDescription(errorAnalysis, parsed.value)

Idle == [name |-> "idle", investigationData |-> NoData,
         errorAnalysis |-> [type |-> "object", tokens |-> << >>]]

InitWorkflow ==
    /\ remote = Idle
    /\ pc = "idle"
    /\ targetLine = 0
    /\ allLines = << >>
    /\ methodBoundaries = EmptyObject
    /\ result = fulfilled(<<"none">>)

\* the handler ends by throwing e to its caller
propagate(e) ==
    /\ pc' = "returned"
    /\ result' = thrown(e)

\* the handler calls createJiraTicketWithInvestigation
ticketStep(log, investigationData, errorAnalysis) ==
    LET description ==
            createJiraTicketWithInvestigation(investigationData, errorAnalysis)
    IN IF description.threw
       THEN /\ propagate(description.error)
            /\ allLines' = log
            /\ targetLine' = targetLine
       ELSE /\ pc' = "createJiraTicket"
            /\ allLines' = Append(log, [call |-> "createJiraTicket",
                                       response |-> Pending])
            /\ targetLine' = targetLine + 1
            /\ result' = result

\* the handler of the tool `name` runs up to its first remote call
invoke(name, investigationData, errorAnalysis) ==
    /\ remote' = [name |-> name, investigationData |-> investigationData,
                  errorAnalysis |-> errorAnalysis]
    /\ IF name = "create_jira_ticket"
       THEN /\ ticketStep(allLines, investigationData, errorAnalysis)
            /\ UNCHANGED methodBoundaries
       ELSE /\ investigationData = NoData
            /\ pc' = "findCodeOwner"
            /\ allLines' = Append(allLines, [call |-> "findCodeOwner",
                                            response |-> Pending])
            /\ UNCHANGED <<targetLine, methodBoundaries, result>>

\* a client calls one of the three tools
InvokeTool ==
    /\ pc = "idle"
    /\ \E name \in { "investigate_error", "create_jira_ticket",
                     "track_error_full" } :
       \E investigationData \in InvestigationData :
       \E errorAnalysis \in ErrorAnalyses :
           invoke(name, investigationData, errorAnalysis)

\* the log with the reply of the awaited call filled in
resolved(reply) ==
    [allLines EXCEPT ![Len(allLines)].response = reply]

\* the blame request of investigateError is answered
FindCodeOwnerResolves(reply) ==
    /\ pc = "findCodeOwner"
    /\ LET owner == findCodeOwner(reply) IN
       IF owner.threw
       THEN /\ propagate(owner.error)
            /\ allLines' = resolved(reply)
            /\ UNCHANGED <<remote, targetLine, methodBoundaries>>
       ELSE /\ methodBoundaries' =
                  [methodBoundaries EXCEPT !.codeOwner = <<owner.value>>]
            /\ pc' = "getPullRequestByCommit"
            /\ allLines' = Append(resolved(reply),
                                  [call |-> "getPullRequestByCommit",
                                   response |-> Pending])
            /\ UNCHANGED <<remote, targetLine, result>>

\* the pull request query of investigateError is answered; track_error_full
\* goes on to the ticket
GetPullRequestByCommitResolves(reply) ==
    /\ pc = "getPullRequestByCommit"
    /\ LET owner == methodBoundaries.codeOwner[1]
           prInfo == getPullRequestByCommit(reply, owner.name, "MERGED")
           links == relatedPRLinks(prInfo.value)
           found == [methodBoundaries EXCEPT !.pullRequests = <<prInfo.value>>]
       IN IF prInfo.threw \/ links.threw
          THEN /\ propagate(IF prInfo.threw THEN prInfo.error ELSE links.error)
               /\ allLines' = resolved(reply)
               /\ UNCHANGED <<remote, targetLine, methodBoundaries>>
          ELSE /\ methodBoundaries' = found
               /\ UNCHANGED remote
               /\ IF remote.name = "investigate_error"
                  THEN /\ pc' = "returned"
                       /\ result' = fulfilled(<<found>>)
                       /\ allLines' = resolved(reply)
                       /\ UNCHANGED targetLine
                  ELSE ticketStep(resolved(reply),
                                  [type |-> "object", tokens |-> << >>,
                                   value |-> found],
                                  remote.errorAnalysis)

\* the JIRA request of createJiraTicket is answered
CreateJiraTicketResolves(reply) ==
    /\ pc = "createJiraTicket"
    /\ allLines' = resolved(reply)
    /\ pc' = "returned"
    /\ result' = IF reply.kind = "axiosError"
                 THEN thrown("JIRA API error")
                 ELSE fulfilled(reply.values)
    /\ UNCHANGED <<remote, targetLine, methodBoundaries>>

NextWorkflow ==
    \/ InvokeTool
    \/ \E reply \in BlameResponses : FindCodeOwnerResolves(reply)
    \/ \E reply \in PullRequestResponses :
           GetPullRequestByCommitResolves(reply)
    \/ \E reply \in JiraResponses : CreateJiraTicketResolves(reply)

SpecWorkflow == InitWorkflow /\ [][NextWorkflow]_vars

\* the positions in the log of the createJiraTicket calls
ticketCalls ==
    { k \in 1..Len(apiCalls) : apiCalls[k].call = "createJiraTicket" }

\* the k-th remote call was the lookup `call` and gave a result
lookupSucceeded(k, call) ==
    /\ k \in 1..Len(apiCalls)
    /\ apiCalls[k].call = call
    /\ apiCalls[k].response.kind = "ok"
    /\ call = "findCodeOwner" => Len(apiCalls[k].response.values) > 0

\* one of the two lookups was answered and gave no result
lookupFailed ==
    \E k \in 1..Len(apiCalls) :
        /\ apiCalls[k].call \in { "findCodeOwner", "getPullRequestByCommit" }
        /\ apiCalls[k].response.kind # "pending"
        /\ ~lookupSucceeded(k, apiCalls[k].call)

\* the text of an object with the members ms, from the k-th member on
RECURSIVE membersText(_, _)
membersText(ms, k) ==
    IF k > Len(ms) THEN <<"}">>
    ELSE (IF k = 1 THEN << >> ELSE <<",">>) \o <<ms[k]>> \o membersText(ms, k + 1)

\* the JSON texts over the tokens
ValidJson ==
    { <<"null">> } \cup
    { <<"{">> \o membersText(ms, 1) :
        ms \in UNION { [1..n -> MemberTokens] : n \in 0..MaxJsonTokens } }

\* the investigation data is no JSON text
unparsable(data) == data.type = "string" /\ data.tokens \notin ValidJson

\* the investigation data has no codeOwner or no pullRequests
lacksField(data) ==
    IF data.type = "string"
    THEN /\ data.tokens \in ValidJson
         /\ \E f \in MemberTokens :
                \A k \in 1..Len(data.tokens) : data.tokens[k] # f
    ELSE \/ data.value.isNull
         \/ data.value.codeOwner = << >>
         \/ data.value.pullRequests = << >>

\* C30: in the track_error_full workflow the JIRA ticket is created last and
\* at most once: createJiraTicket is called only after findCodeOwner and
\* then getPullRequestByCommit have both succeeded, in that order, and no
\* remote call follows it; if either lookup fails the error propagates to
\* the caller and no ticket is created; and
\* createJiraTicketWithInvestigation, given investigation data that is
\* unparsable or lacks codeOwner or pullRequests, throws to the caller and
\* creates no ticket.
C30_TicketLastAndAtMostOnce ==
    /\ [](tool.name = "track_error_full" =>
            /\ Cardinality(ticketCalls) <= 1
            /\ tickets = Cardinality(ticketCalls)
            /\ \A k \in ticketCalls :
                  /\ k = 3
                  /\ k = Len(apiCalls)
                  /\ lookupSucceeded(1, "findCodeOwner")
                  /\ lookupSucceeded(2, "getPullRequestByCommit")
            /\ lookupFailed =>
                  /\ ticketCalls = {}
                  /\ awaiting = "returned"
                  /\ outcome.threw
                  /\ outcome.error \in
                        { "Bitbucket API error",
                          "No blame information found for this line" })
    /\ []((/\ tool.name = "create_jira_ticket"
           /\ unparsable(tool.investigationData)
                 \/ lacksField(tool.investigationData)) =>
            /\ apiCalls = << >>
            /\ tickets = 0
            /\ awaiting = "returned"
            /\ outcome.threw
            /\ unparsable(tool.investigationData) =>
                  outcome.error = "invalid investigationData")
    /\ [][ticketCalls # {} =>
            /\ Len(apiCalls') = Len(apiCalls)
            /\ tickets' = tickets]_vars

\* track_error_full returned a ticket after the three remote calls
C30_TicketAfterBothLookups ==
    /\ tool.name = "track_error_full"
    /\ awaiting = "returned"
    /\ ~outcome.threw
    /\ Len(apiCalls) = 3
    /\ tickets = 1

====
